---- MODULE Spec2Model ----
(***************************************************************************)
(* A model of belgrano9/price_scraper: the scrape pipeline of SNCFScraper  *)
(* (src/src/scraper.py), the two bypass strategies DataDomeBypass          *)
(* (src/src/datadome.py) and AdvancedDataDomeBypass                        *)
(* (src/src/datadome_advanced.py), and the offer parser                    *)
(* (src/src/parser.py).                                                    *)
(*                                                                         *)
(* The browser driver (Camoufox page) is the environment: every driver     *)
(* call either succeeds or raises, every element query finds the element   *)
(* or does not, and the model draws each outcome with \E.                  *)
(***************************************************************************)
EXTENDS Integers, Sequences, FiniteSets, TLC

VARIABLES
    \* ---- SNCFScraper (scraper.py) ----
    use_advanced,   \* self.use_advanced, fixed at construction
    debug,          \* self.debug, fixed at construction
    pc,             \* position of scrape(): init, homepage, search, extract,
                    \* screenshot, persist, DONE (returned at line 396),
                    \* FAILED (returned [] at line 368, 373 or 403)
    calls,          \* the stage methods the current scrape() invoked, in
                    \* order, each with what it returned (ok: not False)
    results,        \* self.results
    returned,       \* the list the last scrape() returned
    artifact,       \* data/prices.json
    markup,         \* the markup page.content() serves in the current job
    stubOk,         \* every call of the current job to the driver and to the
                    \* file system succeeded so far, every element was found
    detFired,       \* the detector fired on some page of the current job
    jobs,           \* number of scrape() invocations so far
    \* ---- challenge resolver (handle_datadome_challenge) ----
    max_wait,       \* the timeout argument, seconds
    now,            \* time.time(), seconds
    start_time,     \* start_time of the attempt
    check_interval, \* the iteration counter (advanced strategy)
    rpc,            \* position: idle, head, body, delay, poll, returned
    ret,            \* the value returned, once rpc = "returned"
    verdicts,       \* the verdict of every detector poll of the attempt
    acts,           \* what the current iteration has done so far, in order
    soft,           \* the actions of the current iteration that stopped on
                    \* a driver error
    last_poll,      \* time.time() at the latest detector poll of the attempt
    \* ---- challenge detector (check_datadome_challenge) ----
    det,            \* record: the page of the last call, the signals, the verdict
    \* ---- timing model (random_delay, gaussian_delay) ----
    tm,             \* record: the bounds, the sample and the time slept
    \* ---- motion generator (bezier_curve) ----
    bz,             \* record: start, end, controls, steps and the curve
    \* ---- session store (save_cookies, load_cookies) ----
    files,          \* the cookie files of session_dir, by path
    saved,          \* by session name, how the latest save_cookies ended
                    \* and the cookies the driver gave it
    last,           \* the latest call on the store and what it returned
    procs,          \* jobs sharing session_dir: the position of each in
                    \* its save_cookies or load_cookies
    written,        \* the cookie lists some save_cookies wrote to its end
    \* ---- homepage visit (navigate_to_homepage) ----
    hv,             \* record: the driver of one visit, the calls made
    \* ---- interrupt (KeyboardInterrupt in the resolver loop) ----
    intr,           \* record: whether delivered, where, the loop then
    \* ---- pointer (human_like_mouse_movement) ----
    mouse_position, \* self.mouse_position
    mv,             \* record: the path being played and how far it got
    \* ---- calls of pure functions ----
    pr,             \* record: the cards of one parse_prices call, the offers
    mt,             \* record: one match_intent_to_bookings call, its result
    loc,            \* record: one disambiguate_location call, its result
    fn              \* record: one call of a helper under check, its result

pipeVars == <<use_advanced, debug, pc, calls, results, returned, artifact,
              markup, stubOk, detFired, jobs>>
resolverVars == <<max_wait, now, start_time, check_interval, rpc, ret,
                  verdicts, acts, soft, last_poll>>
vars == <<use_advanced, debug, pc, calls, results, returned, artifact,
          markup, stubOk, detFired, jobs, max_wait, now, start_time,
          check_interval, rpc, ret, verdicts, acts, soft, last_poll, det, tm,
          bz, files,
          saved, last, procs, written, hv, intr, mouse_position, mv, pr, mt,
          loc,
          fn>>
motionVars == <<mouse_position, mv>>
pureVars == <<pr, mt, loc, fn>>
storeVars == <<files, saved, last, procs, written>>

\* ------------------------------------------------------------------------
\* Bounds of the model
\* ------------------------------------------------------------------------
MaxCards == 4       \* cards in one page of markup
MaxJobs == 2        \* scrape() invocations on one scraper object

\* ------------------------------------------------------------------------
\* Names visible to the code (Python resolves them at run time)
\* ------------------------------------------------------------------------
\* Module-level names of scraper.py: its imports (lines 8-18).
scraper_globals ==
    {"json", "os", "time", "datetime", "Dict", "List", "Optional",
     "Camoufox", "DataDomeBypass", "AdvancedDataDomeBypass", "PriceParser"}

\* Methods of class DataDomeBypass (datadome.py).
DataDomeBypass_methods ==
    {"random_delay", "human_like_mouse_movement", "random_scroll",
     "wait_for_page_load", "check_datadome_challenge",
     "handle_datadome_challenge", "get_stealth_config",
     "add_realistic_headers"}

\* Methods of class AdvancedDataDomeBypass (datadome_advanced.py).
AdvancedDataDomeBypass_methods ==
    {"bezier_curve", "_bezier_point", "human_like_mouse_movement",
     "random_scroll_with_inertia", "gaussian_delay", "human_typing_delay",
     "inject_fingerprint_spoofing", "randomize_viewport",
     "check_datadome_challenge", "_check_url_indicators",
     "_check_dom_indicators", "_check_network_indicators",
     "_check_javascript_indicators", "handle_datadome_challenge",
     "_hover_random_element", "save_cookies", "load_cookies",
     "get_advanced_stealth_config", "get_realistic_headers",
     "wait_for_page_load"}

\* self.datadome_bypass, chosen in SNCFScraper.__init__ (lines 43-47).
datadome_bypass(adv) ==
    IF adv THEN AdvancedDataDomeBypass_methods ELSE DataDomeBypass_methods

\* self.datadome_bypass.<m>(...) raises AttributeError when the strategy
\* object has no method m.
has_method(adv, m) == m \in datadome_bypass(adv)

\* ------------------------------------------------------------------------
\* Offer parser (parser.py)
\* ------------------------------------------------------------------------
\* A card is the text of one candidate element; a price is a number of
\* cents (the float 25.5 is 2550).
NoPrice == -1       \* None: _extract_price finds no price in the card

\* _extract_price (lines 199-225): the first price pattern found in the
\* text, its comma read as a decimal point, as a float; None without one.
extract_price(card) ==
    CASE card = "25€" -> 2500
      [] card = "25,50 €" -> 2550
      [] card = "EUR 40" -> 4000
      [] card = "0€" -> 0
      [] OTHER -> NoPrice

\* None as the result of _parse_train_card.
NoOffer == [price |-> NoPrice]

\* _parse_train_card (lines 94-130): the offer of a card, or None when
\* `if price:` is false, which it is for None and for a price of 0.0.
parse_train_card(card) ==
    IF extract_price(card) = NoPrice \/ extract_price(card) = 0
    THEN NoOffer
    ELSE [price |-> extract_price(card)]

RECURSIVE parse_prices(_)
\* parse_prices (lines 30-47): the offers of the cards, in card order, the
\* cards whose result is None skipped.
parse_prices(cards) ==
    IF cards = <<>> THEN <<>>
    ELSE LET train_info == parse_train_card(Head(cards))
         IN  IF train_info # NoOffer
             THEN <<train_info>> \o parse_prices(Tail(cards))
             ELSE parse_prices(Tail(cards))

\* ------------------------------------------------------------------------
\* wait_for_page_load (both strategies)
\* ------------------------------------------------------------------------
\* settleOk: page.wait_for_load_state("networkidle") returned; detected: the
\* verdict of check_datadome_challenge; resolved: the value
\* handle_datadome_challenge returns when it is called.
wait_for_page_load(settleOk, detected, resolved) ==
    IF ~settleOk THEN FALSE
    ELSE IF detected THEN resolved
    ELSE TRUE

\* ------------------------------------------------------------------------
\* Helpers
\* ------------------------------------------------------------------------
RECURSIVE SeqsUpTo(_, _)
SeqsUpTo(S, n) ==
    IF n = 0 THEN {<<>>}
    ELSE LET shorter == SeqsUpTo(S, n - 1)
         IN  shorter \cup {Append(s, x) : s \in shorter, x \in S}

Min(a, b) == IF a <= b THEN a ELSE b
Max(a, b) == IF a >= b THEN a ELSE b

\* ------------------------------------------------------------------------
\* Session store (save_cookies, load_cookies of AdvancedDataDomeBypass)
\* ------------------------------------------------------------------------
MaxCookies == 2     \* cookies in the list page.context.cookies() returns

SessionNames == {"default", "other"}
Cookies == {"datadome", "session"}

\* The lists page.context.cookies() can return: no cookie listed twice.
CookieLists ==
    {c \in SeqsUpTo(Cookies, MaxCookies) :
        \A i \in 1..Len(c), j \in 1..Len(c) : c[i] = c[j] => i = j}

\* A session directory whose files all have one path: the fault
\* C11_LastWriteWins excludes.
cookie_file_shared(session_name) == "default_cookies.json"

\* Lines 499 and 521: the path of the file of a session name.
cookie_file(session_name) ==
    CASE session_name = "default" -> "default_cookies.json"
      [] session_name = "other" -> "other_cookies.json"

CookiePaths == {cookie_file(n) : n \in SessionNames}

\* A file is the sequence of the tokens written to it; a file that does not
\* exist has none and is told apart by `exists`.
Absent == [exists |-> FALSE, content |-> <<>>]
FileOf(content) == [exists |-> TRUE, content |-> content]

\* json.dump(cookies, f) (line 502): the text of the list, as tokens.
dumps(cookies) == <<"[">> \o cookies \o <<"]">>

DecodeError == <<"JSONDecodeError">>

\* json.load(f) (line 527): the list a text denotes; JSONDecodeError for an
\* empty or truncated text and for a text with tokens after the closing
\* bracket.
loads(content) ==
    IF /\ Len(content) >= 2
       /\ content[1] = "["
       /\ content[Len(content)] = "]"
       /\ \A i \in 2..(Len(content) - 1) : content[i] \in Cookies
    THEN SubSeq(content, 2, Len(content) - 1)
    ELSE DecodeError

\* What can go wrong in one save_cookies: page.context.cookies() raises,
\* open() raises, or the write stops after `written` tokens reached the
\* file (json.dump raises, the disk is full, the process is interrupted).
SaveFaults ==
    [at : {"none", "cookies", "open"}, written : {0}]
        \cup [at : {"dump"}, written : 0..MaxCookies]

NoFault == [at |-> "none", written |-> 0]

\* The body of save_cookies (lines 498-504): the file after it, and whether
\* it ran to its end or raised.  open(cookie_file, 'w') truncates the file
\* before anything is written.
save_cookies_body(file, cookies, fault) ==
    CASE fault.at = "cookies" -> [file |-> file, outcome |-> "raise"]
      [] fault.at = "open" -> [file |-> file, outcome |-> "raise"]
      [] fault.at = "dump" ->
            [file |-> FileOf(SubSeq(dumps(cookies), 1,
                                    Min(fault.written, Len(cookies) + 1))),
             outcome |-> "raise"]
      [] OTHER -> [file |-> FileOf(dumps(cookies)), outcome |-> "none"]

\* What can go wrong in one load_cookies: open() or read raises, or
\* page.context.add_cookies raises.
LoadFaults == {"none", "read", "add"}

\* The body of load_cookies (lines 521-531): the value returned ("raise"
\* when an exception leaves the body) and the cookies handed to the driver.
load_cookies_body(file, fault) ==
    IF ~file.exists
    THEN [outcome |-> "false", handed |-> FALSE, cookies |-> <<>>]   \* 524
    ELSE IF fault = "read" \/ loads(file.content) = DecodeError
    THEN [outcome |-> "raise", handed |-> FALSE, cookies |-> <<>>]   \* 526-527
    ELSE IF fault = "add"
    THEN [outcome |-> "raise", handed |-> FALSE, cookies |-> <<>>]   \* 529
    ELSE [outcome |-> "true", handed |-> TRUE,
          cookies |-> loads(file.content)]

\* A handler that lets the exception through: the fault
\* C12_SessionBestEffort excludes.
except_reraises(outcome, value) == outcome

\* `except Exception` of lines 506-507 and 533-535: the exception ends in
\* the handler, which returns `value`.
except_exception(outcome, value) ==
    IF outcome = "raise" THEN value ELSE outcome

\* save_cookies (lines 489-507).
save_cookies(file, cookies, fault) ==
    [file |-> save_cookies_body(file, cookies, fault).file,
     outcome |-> except_exception(
                    save_cookies_body(file, cookies, fault).outcome, "none")]

\* load_cookies (lines 509-535).
load_cookies(file, fault) ==
    [outcome |-> except_exception(load_cookies_body(file, fault).outcome,
                                  "false"),
     handed |-> load_cookies_body(file, fault).handed,
     cookies |-> load_cookies_body(file, fault).cookies]

\* The files a session directory can hold for one name: none, or what some
\* save_cookies left.
StoredFiles ==
    {Absent} \cup {save_cookies(Absent, c, f).file :
                        c \in CookieLists, f \in SaveFaults}

\* What a call of load_cookies and of save_cookies can end in, over every
\* file and every fault.
LoadOutcomes ==
    {load_cookies(file, fault).outcome :
        file \in StoredFiles, fault \in LoadFaults}

SaveOutcomes ==
    {save_cookies(Absent, c, fault).outcome :
        c \in CookieLists, fault \in SaveFaults}

\* ------------------------------------------------------------------------
\* Stages of SNCFScraper
\* ------------------------------------------------------------------------
\* What the driver does during navigate_to_homepage.
\* loaded and saved are what load_cookies and save_cookies do in the visit
\* (advanced strategy): "true" or "false" returned, "none" for a return
\* without a value, "raise" for an exception that leaves the call.
HomeDriver ==
    [headersOk : BOOLEAN, viewportOk : BOOLEAN, gotoOk : BOOLEAN,
     settleOk : BOOLEAN, detected : BOOLEAN, resolved : BOOLEAN,
     loaded : LoadOutcomes, saved : SaveOutcomes]

\* navigate_to_homepage: its return value.  The calls that catch their own
\* exceptions (inject_fingerprint_spoofing, load_cookies, save_cookies,
\* add_realistic_headers, the mouse and scroll simulation) cannot change it.
navigate_to_homepage(adv, d) ==
    IF adv /\ d.loaded = "raise" THEN FALSE    \* 116 raises -> 157
    ELSE IF adv /\ ~d.headersOk THEN FALSE     \* 122 raises -> 157
    ELSE IF adv /\ ~d.viewportOk THEN FALSE    \* 129 raises -> 157
    ELSE IF ~d.gotoOk THEN FALSE               \* 133 raises -> 157
    ELSE IF ~wait_for_page_load(d.settleOk, d.detected, d.resolved)
         THEN FALSE                            \* 136-138
    ELSE IF ~has_method(adv, IF adv THEN "gaussian_delay" ELSE "random_delay")
         THEN FALSE                            \* 142 / 146
    ELSE IF ~has_method(adv, IF adv THEN "random_scroll_with_inertia"
                                     ELSE "random_scroll")
         THEN FALSE                            \* 144 / 148
    ELSE IF adv /\ d.saved = "raise" THEN FALSE \* 152 raises -> 157
    ELSE TRUE

\* What the driver does during search_route.
SearchDriver ==
    [formOk : BOOLEAN, originFound : BOOLEAN, destFound : BOOLEAN,
     autoOk : BOOLEAN, inputOk : BOOLEAN, buttonFound : BOOLEAN,
     settleOk : BOOLEAN, detected : BOOLEAN, resolved : BOOLEAN]

\* Filling one station input (lines 191-216 and 226-251), TRUE when the
\* block ends without raising.
fill_station(adv, found, d) ==
    IF ~found THEN TRUE                        \* 191 / 226: block skipped
    ELSE IF ~d.inputOk THEN FALSE              \* click, type or fill raises
    ELSE IF ~has_method(adv, IF adv THEN "gaussian_delay" ELSE "random_delay")
         THEN FALSE
    ELSE IF ~d.autoOk THEN FALSE               \* 209 / 244 times out
    ELSE IF adv THEN has_method(adv, "human_typing_delay")
    ELSE "random" \in scraper_globals          \* 215 / 250: random.uniform

\* search_route: its return value.
search_route(adv, d) ==
    IF ~d.formOk THEN FALSE                                 \* 186 times out
    ELSE IF ~fill_station(adv, d.originFound, d) THEN FALSE \* 190-216
    ELSE IF ~fill_station(adv, d.destFound, d) THEN FALSE   \* 225-251
    ELSE IF ~has_method(adv, "random_delay") THEN FALSE     \* 255
    ELSE IF ~d.buttonFound THEN FALSE                       \* 273-275
    ELSE IF ~d.inputOk THEN FALSE                           \* 262 click raises
    ELSE wait_for_page_load(d.settleOk, d.detected, d.resolved) \* 266-272

\* The cards a page of the pipeline can hold: one priced, one unpriced.
PipelineCards == {"25€", "Complet"}

Markups == SeqsUpTo(PipelineCards, MaxCards)

NoArtifact == [state |-> "absent", scrape_time |-> 0, total_results |-> 0,
               results |-> <<>>]

\* One entry of the call log.
Call(stage, ok) == [stage |-> stage, ok |-> ok]

\* A scrape() that goes on to the search whatever the homepage stage
\* returned: the fault C1_StageOrder excludes.
after_homepage_no_abort(ok) == "search"

\* scrape(), lines 366-368: the position after navigate_to_homepage.
after_homepage(ok) == IF ok THEN "search" ELSE "FAILED"

\* scrape(), lines 371-373: the position after search_route.
after_search(ok) == IF ok THEN "extract" ELSE "FAILED"

\* A scrape() without its handler, whose exceptions reach the caller: the
\* fault C17_NoExceptionEscapes excludes.
on_exception_propagates == "RAISED"

\* scrape(), lines 398-403: an exception raised inside the try block ends
\* in the handler, which returns [].
on_exception == "FAILED"

PipelineInit ==
    /\ use_advanced \in BOOLEAN
    /\ debug \in BOOLEAN
    /\ pc = "init"
    /\ calls = <<>>
    /\ results = <<>>
    /\ returned = <<>>
    /\ artifact = NoArtifact
    /\ markup = <<>>
    /\ stubOk = TRUE
    /\ detFired = FALSE
    /\ jobs = 0

\* scrape(), lines 357-363: a new job starts; initialize_browser or new_page
\* may raise, which line 398 catches.
scrape_begin ==
    /\ pc \in {"init", "DONE", "FAILED"}
    /\ jobs < MaxJobs
    /\ \E browserOk \in BOOLEAN, m \in Markups :
        /\ jobs' = jobs + 1
        /\ calls' = <<>>
        /\ markup' = m
        /\ stubOk' = browserOk
        /\ detFired' = FALSE
        /\ pc' = IF browserOk THEN "homepage" ELSE on_exception
        /\ returned' = <<>>
    /\ UNCHANGED <<use_advanced, debug, results, artifact>>
    /\ UNCHANGED <<resolverVars, det, tm, bz, storeVars, hv>>
    /\ UNCHANGED motionVars
    /\ UNCHANGED pureVars
    /\ UNCHANGED intr

\* scrape(), lines 365-368.
scrape_homepage ==
    /\ pc = "homepage"
    /\ \E d \in HomeDriver :
        /\ calls' = Append(calls, Call("navigate_to_homepage",
                                       navigate_to_homepage(use_advanced, d)))
        /\ stubOk' = (stubOk /\ d.headersOk /\ d.viewportOk /\ d.gotoOk
                        /\ d.settleOk)
        /\ detFired' = (detFired \/ d.detected)
        /\ pc' = after_homepage(navigate_to_homepage(use_advanced, d))
    /\ returned' = <<>>
    /\ UNCHANGED <<use_advanced, debug, results, artifact, markup, jobs>>
    /\ UNCHANGED <<resolverVars, det, tm, bz, storeVars, hv>>
    /\ UNCHANGED motionVars
    /\ UNCHANGED pureVars
    /\ UNCHANGED intr

\* scrape(), lines 370-373.
scrape_search ==
    /\ pc = "search"
    /\ \E d \in SearchDriver :
        /\ calls' = Append(calls, Call("search_route",
                                       search_route(use_advanced, d)))
        /\ stubOk' = (stubOk /\ d.formOk /\ d.originFound /\ d.destFound
                        /\ d.autoOk /\ d.inputOk /\ d.buttonFound
                        /\ d.settleOk)
        /\ detFired' = (detFired \/ d.detected)
        /\ pc' = after_search(search_route(use_advanced, d))
    /\ returned' = <<>>
    /\ UNCHANGED <<use_advanced, debug, results, artifact, markup, jobs>>
    /\ UNCHANGED <<resolverVars, det, tm, bz, storeVars, hv>>
    /\ UNCHANGED motionVars
    /\ UNCHANGED pureVars
    /\ UNCHANGED intr

\* extract_prices (lines 291-305) and scrape() lines 376-377.
scrape_extract ==
    /\ pc = "extract"
    /\ \E contentOk \in BOOLEAN :
        /\ results' = IF contentOk THEN parse_prices(markup) ELSE <<>>
        /\ stubOk' = (stubOk /\ contentOk)
    /\ calls' = Append(calls, Call("extract_prices", TRUE))
    /\ pc' = IF debug THEN "screenshot" ELSE "persist"
    /\ UNCHANGED <<use_advanced, debug, returned, artifact, markup, detFired,
                   jobs>>
    /\ UNCHANGED <<resolverVars, det, tm, bz, storeVars, hv>>
    /\ UNCHANGED motionVars
    /\ UNCHANGED pureVars
    /\ UNCHANGED intr

\* scrape(), lines 380-387: the debug screenshot; an error goes to line 398.
scrape_screenshot ==
    /\ pc = "screenshot"
    /\ \E shotOk \in BOOLEAN :
        /\ stubOk' = (stubOk /\ shotOk)
        /\ pc' = IF shotOk THEN "persist" ELSE on_exception
    /\ returned' = <<>>
    /\ UNCHANGED <<use_advanced, debug, calls, results, artifact, markup,
                   detFired, jobs>>
    /\ UNCHANGED <<resolverVars, det, tm, bz, storeVars, hv>>
    /\ UNCHANGED motionVars
    /\ UNCHANGED pureVars
    /\ UNCHANGED intr

\* A save_results that adds the offers to those already in the file: the
\* fault C19_ArtifactOncePerJob excludes.
save_results_append(old, write, stamp, res) ==
    CASE write = "ok" ->
            [state |-> "complete", scrape_time |-> stamp,
             total_results |-> Len(res), results |-> old.results \o res]
      [] write = "open_fails" -> old
      [] write = "dump_fails" ->
            [state |-> "partial", scrape_time |-> 0, total_results |-> 0,
             results |-> <<>>]

\* save_results (lines 314-336): the file after the call.  open(..., "w")
\* truncates the file before json.dump writes it.
save_results(old, write, stamp, res) ==
    CASE write = "ok" ->
            [state |-> "complete", scrape_time |-> stamp,
             total_results |-> Len(res), results |-> res]
      [] write = "open_fails" -> old
      [] write = "dump_fails" ->
            [state |-> "partial", scrape_time |-> 0, total_results |-> 0,
             results |-> <<>>]

\* scrape(), lines 389-396: save_results, then return prices.
scrape_persist ==
    /\ pc = "persist"
    /\ \E write \in {"ok", "open_fails", "dump_fails"} :
        /\ artifact' = save_results(artifact, write, jobs, results)
        /\ stubOk' = (stubOk /\ write = "ok")
    /\ calls' = Append(calls, Call("save_results", TRUE))
    /\ returned' = results
    /\ pc' = "DONE"
    /\ UNCHANGED <<use_advanced, debug, results, markup, detFired, jobs>>
    /\ UNCHANGED <<resolverVars, det, tm, bz, storeVars, hv>>
    /\ UNCHANGED motionVars
    /\ UNCHANGED pureVars
    /\ UNCHANGED intr

\* ------------------------------------------------------------------------
\* Challenge detector (check_datadome_challenge, both strategies)
\* ------------------------------------------------------------------------
\* What the driver shows of one page.  "raise" means that the driver call
\* reading that part of the page raises.
Urls ==
    {"https://www.sncf-connect.com/",
     "https://geo.captcha-delivery.com/interstitial/"}

Bodies ==
    {"Bienvenue sur SNCF Connect", "checking your browser",
     "Checking your browser", "CHECKING YOUR BROWSER",
     "Verifying you are human"}

ScriptSrcs ==
    {"https://www.sncf-connect.com/app.js", "https://js.datadome.co/tags.js"}

Pages ==
    [url : Urls \cup {"raise"},
     element : {"none", "match", "raise"},  \* query_selector of the 4 selectors
     body : Bodies \cup {"raise"},          \* the page's text
     js : {"false", "true", "raise"},       \* the vendor hooks and cookies
     script : ScriptSrcs \cup {"none", "raise"}]  \* src of the page's script

\* str.lower() on the strings of the model.
lower(s) ==
    CASE s = "Checking your browser" -> "checking your browser"
      [] s = "CHECKING YOUR BROWSER" -> "checking your browser"
      [] s = "Verifying you are human" -> "verifying you are human"
      [] s = "Bienvenue sur SNCF Connect" -> "bienvenue sur sncf connect"
      [] OTHER -> s

\* The needles of the detectors that occur in a string of the model
\* (Python's `needle in s`, case-sensitive).
substrings(s) ==
    CASE s = "https://geo.captcha-delivery.com/interstitial/" ->
            {"geo.captcha-delivery.com", "interstitial"}
      [] s = "https://js.datadome.co/tags.js" -> {"datadome.co", "datadome"}
      [] s = "checking your browser" -> {"checking your browser"}
      [] s = "Checking your browser" -> {"Checking your browser"}
      [] s = "CHECKING YOUR BROWSER" -> {"CHECKING YOUR BROWSER"}
      [] s = "verifying you are human" -> {"verifying you are human"}
      [] s = "Verifying you are human" -> {"Verifying you are human"}
      [] OTHER -> {}

contains(s, needle) == needle \in substrings(s)

\* A signal check ends in one of: "true", "false", "raise".
\* _check_url_indicators (lines 359-363): no try/except of its own.
check_url_indicators(p) ==
    IF p.url = "raise" THEN "raise"
    ELSE IF \E indicator \in {"geo.captcha-delivery.com", "datadome.co",
                              "interstitial"} : contains(p.url, indicator)
         THEN "true" ELSE "false"

\* _check_dom_indicators (lines 365-392): a bare except returns False.
check_dom_indicators(p) ==
    IF p.element = "raise" THEN "false"
    ELSE IF p.element = "match" THEN "true"
    ELSE IF p.body = "raise" THEN "false"
    ELSE IF \E text \in {"checking your browser", "please wait",
                         "verifying you are human", "security check"} :
                contains(lower(p.body), text)
         THEN "true" ELSE "false"

\* _check_network_indicators (lines 394-398).
check_network_indicators(p) == "false"

\* _check_javascript_indicators (lines 400-420): a bare except returns False.
check_javascript_indicators(p) ==
    IF p.js = "raise" THEN "false" ELSE p.js

\* The list detection_methods of lines 346-351 is built left to right: a
\* check that raises leaves the checks after it unevaluated ("skipped").
detection_methods(p) ==
    IF check_url_indicators(p) = "raise"
    THEN <<"raise", "skipped", "skipped", "skipped">>
    ELSE <<check_url_indicators(p), check_dom_indicators(p),
           check_network_indicators(p), check_javascript_indicators(p)>>

\* A detector that wants every signal to fire: the fault C7_PureOr excludes.
all_true(methods) == \A i \in 1..Len(methods) : methods[i] = "true"

\* Python's any() over the results of the checks.
any_true(methods) == \E i \in 1..Len(methods) : methods[i] = "true"

\* A detector that takes an error for a challenge: the fault
\* C37_RaisingPollIsClear excludes.
check_datadome_challenge_alarmed(p) ==
    IF \E i \in 1..Len(detection_methods(p)) : detection_methods(p)[i] = "raise"
    THEN TRUE
    ELSE any_true(detection_methods(p))

\* AdvancedDataDomeBypass.check_datadome_challenge (lines 344-357).
check_datadome_challenge_advanced(p) ==
    IF \E i \in 1..Len(detection_methods(p)) : detection_methods(p)[i] = "raise"
    THEN FALSE                                  \* 355-357
    ELSE any_true(detection_methods(p))         \* 353

\* DataDomeBypass.check_datadome_challenge (datadome.py lines 107-132).  The
\* markup page.content() returns holds the body text and the script tag.
check_datadome_challenge_baseline(p) ==
    IF p.body = "raise" THEN FALSE              \* 117 raises -> 130
    ELSE IF \E indicator \in {"geo.captcha-delivery.com", "datadome.co",
                              "dd-captcha", "DataDome",
                              "Checking your browser"} :
                \/ contains(p.body, indicator)
                \/ p.script \in ScriptSrcs /\ contains(p.script, indicator)
         THEN TRUE                              \* 118-120
    ELSE IF p.script = "raise" THEN FALSE       \* 123 raises -> 130
    ELSE IF p.script \in ScriptSrcs /\ contains(lower(p.script), "datadome")
         THEN TRUE                              \* 124-127
    ELSE FALSE

check_datadome_challenge(adv, p) ==
    IF adv THEN check_datadome_challenge_advanced(p)
    ELSE check_datadome_challenge_baseline(p)

NoPage == [url |-> "raise", element |-> "none", body |-> "raise",
           js |-> "false", script |-> "none"]

\* The detector before its call on page p.
DetectorAt(p) ==
    [called |-> FALSE, page |-> p,
     methods |-> <<"skipped", "skipped", "skipped", "skipped">>,
     verdict |-> FALSE]

DetectorIdle == DetectorAt(NoPage)

\* One call of check_datadome_challenge on the page the driver shows.
detect ==
    /\ ~det.called
    /\ det' = [called |-> TRUE, page |-> det.page,
               methods |-> IF use_advanced THEN detection_methods(det.page)
                           ELSE det.methods,
               verdict |-> check_datadome_challenge(use_advanced, det.page)]
    /\ UNCHANGED <<pipeVars, resolverVars, tm, bz, storeVars, hv>>
    /\ UNCHANGED motionVars
    /\ UNCHANGED pureVars
    /\ UNCHANGED intr

\* The verdicts the detector of a strategy can give on the pages.
VerdictsAdvanced == {check_datadome_challenge(TRUE, p) : p \in Pages}
VerdictsBaseline == {check_datadome_challenge(FALSE, p) : p \in Pages}

\* ------------------------------------------------------------------------
\* Timing model (random_delay, gaussian_delay)
\* ------------------------------------------------------------------------
\* Time is counted in ticks of 1/12 s, so that every pair of bounds the code
\* passes (0.5, 1, 1.5, 2, 3, 4, 5 s) is a multiple of 6 ticks and the mean
\* (min+max)/2 and the standard deviation (max-min)/6 are whole ticks.
TicksPerSecond == 12

MaxBound == 8       \* delay bounds are 0, 6, ..., 6*MaxBound ticks
MaxSigma == 4       \* random.gauss draws mean + z*std_dev, z in -MaxSigma..MaxSigma
UniformSteps == 6   \* random.random() draws u/UniformSteps, u in 0..UniformSteps

TimeBounds == {6 * k : k \in 0..MaxBound}
Sigmas == (0 - MaxSigma)..MaxSigma
Fractions == 0..UniformSteps


\* random.gauss(mean, std_dev) of lines 177-181, for the draw z.
gauss_sample(min_seconds, max_seconds, z) ==
    LET mean == (min_seconds + max_seconds) \div 2
        std_dev == (max_seconds - min_seconds) \div 6
    IN  mean + z * std_dev

\* A Gaussian delay that is not clamped: the fault C9_DelayWithinBounds
\* excludes.
clamp_missing(min_seconds, max_seconds, delay) == delay

\* Line 182: the clamp to [min_seconds, max_seconds].
clamp(min_seconds, max_seconds, delay) ==
    Max(min_seconds, Min(max_seconds, delay))

\* gaussian_delay (lines 177-184): the time passed to time.sleep.
gaussian_delay(min_seconds, max_seconds, z) ==
    clamp(min_seconds, max_seconds, gauss_sample(min_seconds, max_seconds, z))

\* random_delay (datadome.py lines 30-31): random.uniform(a, b) is
\* a + (b - a) * random.random(); the time passed to time.sleep.
random_delay(min_seconds, max_seconds, u) ==
    min_seconds + ((max_seconds - min_seconds) * u) \div UniformSteps

\* A delay call about to be made: its policy, bounds and random draw.
TimingAt(policy, lo, hi, draw) ==
    [called |-> FALSE, policy |-> policy, min |-> lo, max |-> hi,
     draw |-> draw, slept |-> 0]

TimingIdle == TimingAt("uniform", 0, 0, 0)

\* One call of random_delay (uniform policy): the caller is blocked for
\* tm.slept ticks.
sleep_uniform ==
    /\ ~tm.called
    /\ tm.policy = "uniform"
    /\ tm' = [tm EXCEPT !.called = TRUE,
                        !.slept = random_delay(tm.min, tm.max, tm.draw)]
    /\ UNCHANGED <<pipeVars, resolverVars, det, bz, storeVars, hv>>
    /\ UNCHANGED motionVars
    /\ UNCHANGED pureVars
    /\ UNCHANGED intr

\* One call of gaussian_delay (Gaussian policy).
sleep_gaussian ==
    /\ ~tm.called
    /\ tm.policy = "gaussian"
    /\ tm' = [tm EXCEPT !.called = TRUE,
                        !.slept = gaussian_delay(tm.min, tm.max, tm.draw)]
    /\ UNCHANGED <<pipeVars, resolverVars, det, bz, storeVars, hv>>
    /\ UNCHANGED motionVars
    /\ UNCHANGED pureVars
    /\ UNCHANGED intr

\* ------------------------------------------------------------------------
\* Challenge resolver (handle_datadome_challenge, both strategies)
\* ------------------------------------------------------------------------
MaxWait == 12       \* max_wait is drawn from -1..MaxWait seconds
MaxLatency == 1     \* ticks a driver call may take beyond the delays

LoopDelayMin == 2   \* gaussian_delay(2, 4) / random_delay(2, 4)
LoopDelayMax == 4

\* A while test that still passes when the elapsed time equals max_wait:
\* the fault C39_DeadlineAtHead excludes.
loop_continues_inclusive(t, start, wait) ==
    t - start <= wait * TicksPerSecond

\* A while test that gives up one second early: the fault C5_TimesOut
\* excludes.
loop_continues_early(t, start, wait) ==
    t - start < (wait - 1) * TicksPerSecond

\* The while test of line 439 (datadome.py line 150).
loop_continues(t, start, wait) == t - start < wait * TicksPerSecond

\* A schedule that counts the iterations from 0: the fault
\* C31_ActionSchedule excludes.
iteration_actions_from_zero(adv, k) ==
    IF adv
    THEN (IF (k - 1) % 3 = 0 THEN <<"motion">> ELSE <<>>)
         \o (IF (k - 1) % 4 = 0 THEN <<"scroll">> ELSE <<>>)
         \o (IF (k - 1) % 5 = 0 THEN <<"hover">> ELSE <<>>)
    ELSE <<"motion", "scroll">>

\* The actions of iteration k before its delay: lines 443-453 in the
\* advanced strategy, datadome.py lines 152-153 in the baseline.
iteration_actions(adv, k) ==
    IF adv
    THEN (IF k % 3 = 0 THEN <<"motion">> ELSE <<>>)
         \o (IF k % 4 = 0 THEN <<"scroll">> ELSE <<>>)
         \o (IF k % 5 = 0 THEN <<"hover">> ELSE <<>>)
    ELSE <<"motion", "scroll">>

\* An iteration whose delay may be as short as one second: the fault
\* C24_LoopCadence excludes.
loop_delay_short(adv, r) ==
    IF adv
    THEN gaussian_delay(TicksPerSecond, LoopDelayMax * TicksPerSecond, r)
    ELSE random_delay(TicksPerSecond, LoopDelayMax * TicksPerSecond, r)

\* The delay of one iteration (line 456, datadome.py line 154), in ticks,
\* for the draw r of the strategy's timing policy.
loop_delay(adv, r) ==
    IF adv
    THEN gaussian_delay(LoopDelayMin * TicksPerSecond,
                        LoopDelayMax * TicksPerSecond, r)
    ELSE random_delay(LoopDelayMin * TicksPerSecond,
                      LoopDelayMax * TicksPerSecond, r)

\* A loop that returns True while the detector still reports a challenge:
\* the fault C4_ResolvesAtN excludes.
challenge_resolved_inverted(verdict) == verdict

\* Lines 459-461 (datadome.py 157-159): the loop returns True when the
\* detector no longer reports a challenge.
challenge_resolved(verdict) == ~verdict

\* A resolver that reports success on timeout: the fault
\* C6_TrueOnlyFromResolved excludes.
timeout_result_true == TRUE

\* Lines 466-467 (datadome.py 161-162): the value returned when the while
\* test fails.
timeout_result == FALSE

\* No detector poll was made in the attempt yet.
NoPoll == 0 - 1

ResolverIdle ==
    /\ now = 0
    /\ start_time = 0
    /\ check_interval = 0
    /\ rpc = "idle"
    /\ ret = FALSE
    /\ verdicts = <<>>
    /\ acts = <<>>
    /\ soft = {}
    /\ last_poll = NoPoll

\* Lines 433-437 (datadome.py 145-149): the attempt starts.
resolver_enter ==
    /\ rpc = "idle"
    /\ start_time' = now
    /\ check_interval' = 0
    /\ rpc' = "head"
    /\ UNCHANGED <<max_wait, now, ret, verdicts, acts, soft>>
    /\ last_poll' = NoPoll
    /\ UNCHANGED <<pipeVars, det, tm, bz, storeVars, hv>>
    /\ UNCHANGED motionVars
    /\ UNCHANGED pureVars
    /\ UNCHANGED intr

\* Line 439 (datadome.py 150): the while test; lines 466-467 when it fails.
\* check_interval counts the iterations (in the baseline, for the model only).
resolver_head ==
    /\ rpc = "head"
    /\ IF loop_continues(now, start_time, max_wait)
       THEN /\ check_interval' = check_interval + 1
            /\ acts' = <<>>
            /\ soft' = {}
            /\ rpc' = "body"
            /\ ret' = ret
       ELSE /\ rpc' = "returned"
            /\ ret' = timeout_result
            /\ UNCHANGED <<check_interval, acts, soft>>
    /\ UNCHANGED <<max_wait, now, start_time, verdicts, last_poll>>
    /\ UNCHANGED <<pipeVars, det, tm, bz, storeVars, hv>>
    /\ UNCHANGED motionVars
    /\ UNCHANGED pureVars
    /\ UNCHANGED intr

\* An action whose handler lets the driver's error through: the fault
\* C21_SoftInteractionFailure excludes.
soft_failure_reraises(outcome) == outcome

\* human_like_mouse_movement, random_scroll_with_inertia, random_scroll and
\* _hover_random_element wrap all they do in try/except (lines 134-135,
\* 164-165, 484-485; datadome.py 47-48, 68-69): a driver error ends the
\* action, which returns as usual.
soft_failure(outcome) == IF outcome = "raise" THEN "stopped" ELSE outcome

\* Lines 443-453 (datadome.py 152-153): the actions of the iteration, on
\* any of which the driver may raise (the actions in `failing`).  An error
\* that left its action would end the attempt in the handler of line 469
\* (datadome.py 164), which returns False.
resolver_actions ==
    /\ rpc = "body"
    /\ \E failing \in SUBSET {iteration_actions(use_advanced, check_interval)[i] :
                i \in 1..Len(iteration_actions(use_advanced, check_interval))} :
        LET outcome(a) == soft_failure(IF a \in failing THEN "raise"
                                                        ELSE "none")
            escaped == {i \in 1..Len(iteration_actions(use_advanced,
                                                      check_interval)) :
                          outcome(iteration_actions(use_advanced,
                                                    check_interval)[i])
                              = "raise"}
        IN  IF escaped = {}
            THEN /\ acts' = acts \o iteration_actions(use_advanced,
                                                      check_interval)
                 /\ soft' = failing
                 /\ rpc' = "delay"
                 /\ ret' = ret
            ELSE /\ acts' = acts \o SubSeq(iteration_actions(use_advanced,
                                                             check_interval),
                                           1,
                                           CHOOSE i \in escaped :
                                               \A j \in escaped : i <= j)
                 /\ soft' = failing
                 /\ rpc' = "returned"
                 /\ ret' = FALSE
    /\ \E e \in 0..MaxLatency : now' = now + e
    /\ UNCHANGED <<max_wait, start_time, check_interval, verdicts, last_poll>>
    /\ UNCHANGED <<pipeVars, det, tm, bz, storeVars, hv>>
    /\ UNCHANGED motionVars
    /\ UNCHANGED pureVars
    /\ UNCHANGED intr

\* Line 456 (datadome.py 154): the delay of the iteration.
resolver_delay ==
    /\ rpc = "delay"
    /\ \E r \in (IF use_advanced THEN Sigmas ELSE Fractions) :
        now' = now + loop_delay(use_advanced, r)
    /\ acts' = Append(acts, "delay")
    /\ rpc' = "poll"
    /\ UNCHANGED <<max_wait, start_time, check_interval, ret, verdicts, soft,
                   last_poll>>
    /\ UNCHANGED <<pipeVars, det, tm, bz, storeVars, hv>>
    /\ UNCHANGED motionVars
    /\ UNCHANGED pureVars
    /\ UNCHANGED intr

\* Lines 459-461 (datadome.py 157-159): the detector poll.
resolver_poll ==
    /\ rpc = "poll"
    /\ \E verdict \in (IF use_advanced THEN VerdictsAdvanced
                                          ELSE VerdictsBaseline),
          e \in 0..MaxLatency :
        /\ verdicts' = Append(verdicts, verdict)
        /\ now' = now + e
        /\ IF challenge_resolved(verdict)
           THEN rpc' = "returned" /\ ret' = TRUE
           ELSE rpc' = "head" /\ ret' = ret
    /\ acts' = Append(acts, "poll")
    /\ last_poll' = now
    /\ UNCHANGED <<max_wait, start_time, check_interval, soft>>
    /\ UNCHANGED <<pipeVars, det, tm, bz, storeVars, hv>>
    /\ UNCHANGED motionVars
    /\ UNCHANGED pureVars
    /\ UNCHANGED intr

\* ------------------------------------------------------------------------
\* Motion generator (bezier_curve, _bezier_point)
\* ------------------------------------------------------------------------
MaxCoord == 7       \* coordinates are drawn from {-MaxCoord, 0, MaxCoord}
StepsMin == 20      \* steps = random.randint(20, 40)
StepsMax == 40

Axis == {0 - MaxCoord, 0, MaxCoord}
Points == {<<x, y>> : x \in Axis, y \in Axis}

\* int(n / d) for d > 0: Python's int() truncates toward zero.
trunc_div(n, d) == IF n >= 0 THEN n \div d ELSE 0 - ((0 - n) \div d)

\* An interpolation at t = i / (steps + 1), which never reaches t = 1: the
\* fault C10_CurveEndpoints excludes.
interpolate_short(a, b, i, steps) ==
    trunc_div((steps + 1 - i) * a + i * b, steps + 1)

\* Lines 88-90: int((1 - t) * a + t * b) at t = i / steps.  The value is
\* computed exactly here.  The float the code computes is exact at t = 0
\* and at t = 1; strictly between them its rounding can put an interior
\* sample one unit nearer to zero than the exact value.
interpolate(a, b, i, steps) == trunc_div((steps - i) * a + i * b, steps)

RECURSIVE bezier_point(_, _, _)
\* _bezier_point (lines 83-92) at t = i / steps.
bezier_point(points, i, steps) ==
    IF Len(points) = 1 THEN points[1]
    ELSE bezier_point(
            [k \in 1..(Len(points) - 1) |->
                <<interpolate(points[k][1], points[k + 1][1], i, steps),
                  interpolate(points[k][2], points[k + 1][2], i, steps)>>],
            i, steps)

\* bezier_curve (lines 58-70) for the control points and step count drawn.
bezier_curve(start, end, controls, steps) ==
    [n \in 1..(steps + 1) |->
        bezier_point(<<start>> \o controls \o <<end>>, n - 1, steps)]

\* Lines 53-56: a control point lies in the bounding box of start and end.
ControlPoints(start, end) ==
    {c \in Points :
        /\ Min(start[1], end[1]) <= c[1] /\ c[1] <= Max(start[1], end[1])
        /\ Min(start[2], end[2]) <= c[2] /\ c[2] <= Max(start[2], end[2])}

\* A call of bezier_curve about to be made, with its random draws.
BezierAt(start, end, controls, steps) ==
    [called |-> FALSE, start |-> start, end |-> end, controls |-> controls,
     steps |-> steps, curve |-> <<>>]

BezierIdle == BezierAt(<<0, 0>>, <<0, 0>>, <<>>, 0)

\* The pointer starts at (0, 0) (line 34) or where an earlier path ended.
Starts == {<<0, 0>>, <<0 - MaxCoord, 0>>}
Ends == {<<MaxCoord, MaxCoord>>, <<0 - MaxCoord, 0>>, <<0, 0 - MaxCoord>>,
         <<MaxCoord, 0 - MaxCoord>>, <<0, 0>>}

\* One call of bezier_curve.
generate_curve ==
    /\ ~bz.called
    /\ bz' = [bz EXCEPT !.called = TRUE,
                        !.curve = bezier_curve(bz.start, bz.end, bz.controls,
                                               bz.steps)]
    /\ UNCHANGED <<pipeVars, resolverVars, det, tm, storeVars, hv>>
    /\ UNCHANGED motionVars
    /\ UNCHANGED pureVars
    /\ UNCHANGED intr

\* ------------------------------------------------------------------------
\* Pointer movement (human_like_mouse_movement, advanced strategy)
\* ------------------------------------------------------------------------
MaxMoves == 2       \* movements made one after the other

\* A movement that records its target although the path was cut short: the
\* fault C22_PointerState excludes.
mouse_position_after_any(before, end, completed) == end

\* Line 132 is reached when the loop of lines 121-130 has sent every point;
\* an error before it goes to the handler of line 134, which leaves
\* self.mouse_position alone.
mouse_position_after(before, end, completed) ==
    IF completed THEN end ELSE before

\* No point was sent to page.mouse.move on the current page.
NoPointer == <<>>

\* pointer: the coordinates last sent to page.mouse.move on the current
\* page; page: the number of the page (scraper.py line 363 opens one per
\* scrape() call).
NoPath == [pc |-> "idle", start |-> <<0, 0>>, end |-> <<0, 0>>,
           curve |-> <<>>, sent |-> 0, moves |-> 0, pointer |-> NoPointer,
           page |-> 1]

MotionIdle ==
    /\ mouse_position = <<0, 0>>       \* line 34
    /\ mv = NoPath

\* Lines 105-118: the target is chosen and the path generated from
\* self.mouse_position; reading page.viewport_size may raise.
motion_begin ==
    /\ mv.pc \in {"idle", "done", "failed"}
    /\ mv.moves < MaxMoves
    /\ \E viewportOk \in BOOLEAN, end \in Ends, steps \in {StepsMin, StepsMax} :
        \E control \in ControlPoints(mouse_position, end) :
            mv' = IF viewportOk
                  THEN [pc |-> "moving", start |-> mouse_position,
                        end |-> end,
                        curve |-> bezier_curve(mouse_position, end,
                                               <<control>>, steps),
                        sent |-> 0, moves |-> mv.moves + 1,
                        pointer |-> mv.pointer, page |-> mv.page]
                  ELSE [pc |-> "failed", start |-> mouse_position,
                        end |-> end, curve |-> <<>>, sent |-> 0,
                        moves |-> mv.moves + 1,
                        pointer |-> mv.pointer, page |-> mv.page]
    /\ UNCHANGED mouse_position
    /\ UNCHANGED <<pipeVars, resolverVars, det, tm, bz, storeVars, hv, intr>>
    /\ UNCHANGED pureVars

\* Lines 121-130: the next point of the path goes to page.mouse.move, which
\* may raise.
motion_step ==
    /\ mv.pc = "moving"
    /\ mv.sent < Len(mv.curve)
    /\ \E moveOk \in BOOLEAN :
        IF moveOk
        THEN /\ mv' = [mv EXCEPT !.sent = mv.sent + 1,
                                 !.pointer = mv.curve[mv.sent + 1]]
             /\ UNCHANGED mouse_position
        ELSE /\ mv' = [mv EXCEPT !.pc = "failed"]
             /\ mouse_position' =
                    mouse_position_after(mouse_position, mv.end, FALSE)
    /\ UNCHANGED <<pipeVars, resolverVars, det, tm, bz, storeVars, hv, intr>>
    /\ UNCHANGED pureVars

\* Line 132: every point was sent.
motion_end ==
    /\ mv.pc = "moving"
    /\ mv.sent = Len(mv.curve)
    /\ mv' = [mv EXCEPT !.pc = "done"]
    /\ mouse_position' = mouse_position_after(mouse_position, mv.end, TRUE)
    /\ UNCHANGED <<pipeVars, resolverVars, det, tm, bz, storeVars, hv, intr>>
    /\ UNCHANGED pureVars

\* scrape() is called again on the same scraper: browser.new_page()
\* (scraper.py line 363) gives a page no pointer move was sent to, and
\* self.datadome_bypass is the object made in __init__ (lines 43-47).
motion_new_page ==
    /\ mv.pc \in {"idle", "done", "failed"}
    /\ mv.page < MaxJobs
    /\ mv' = [mv EXCEPT !.page = mv.page + 1, !.pointer = NoPointer]
    /\ UNCHANGED mouse_position
    /\ UNCHANGED <<pipeVars, resolverVars, det, tm, bz, storeVars, hv, intr>>
    /\ UNCHANGED pureVars

\* ------------------------------------------------------------------------
\* Session store: the calls of one job and of two jobs
\* ------------------------------------------------------------------------
NeverSaved == [state |-> "never", cookies |-> <<>>]
NoCall == [op |-> "none", name |-> "default", fault |-> "none",
           outcome |-> "none", handed |-> FALSE, cookies |-> <<>>,
           before |-> Absent]

StoreIdle ==
    /\ files = [p \in CookiePaths |-> Absent]
    /\ saved = [n \in SessionNames |-> NeverSaved]
    /\ last = NoCall
    /\ procs = <<>>
    /\ written = {}

\* One call of save_cookies(page, session_name), from entry to return.
store_save ==
    /\ \E n \in SessionNames, cookies \in CookieLists, fault \in SaveFaults :
        LET path == cookie_file(n)
            call == save_cookies(files[path], cookies, fault)
        IN  /\ files' = [files EXCEPT ![path] = call.file]
            /\ saved' = [saved EXCEPT ![n] =
                            IF fault.at = "none"
                            THEN [state |-> "completed", cookies |-> cookies]
                            ELSE [state |-> "failed", cookies |-> <<>>]]
            /\ last' = [op |-> "save", name |-> n, fault |-> fault.at,
                        outcome |-> call.outcome, handed |-> FALSE,
                        cookies |-> cookies, before |-> files[path]]
    /\ UNCHANGED <<procs, written>>
    /\ UNCHANGED <<pipeVars, resolverVars, det, tm, bz, hv, intr>>
    /\ UNCHANGED motionVars
    /\ UNCHANGED pureVars

\* One call of load_cookies(page, session_name), from entry to return.
store_load ==
    /\ \E n \in SessionNames, fault \in LoadFaults :
        LET call == load_cookies(files[cookie_file(n)], fault)
        IN  last' = [op |-> "load", name |-> n, fault |-> fault,
                     outcome |-> call.outcome, handed |-> call.handed,
                     cookies |-> call.cookies,
                     before |-> files[cookie_file(n)]]
    /\ UNCHANGED <<files, saved, procs, written>>
    /\ UNCHANGED <<pipeVars, resolverVars, det, tm, bz, hv, intr>>
    /\ UNCHANGED motionVars
    /\ UNCHANGED pureVars

\* ------------------------------------------------------------------------
\* Two jobs on one session directory
\* ------------------------------------------------------------------------
\* Two scrapers run at once, each in its own process, with the same
\* session_dir and the same session name.
Jobs == {"job1", "job2"}

SharedPath == cookie_file("default")

IdleProc == [pc |-> "idle", op |-> "none", doc |-> <<>>, off |-> 0,
             observed |-> Absent, outcome |-> "none", cookies |-> <<>>]

\* write(2) of `chunk` at offset `off` of a file: the bytes there are
\* replaced, the file grows when it is shorter, and a gap before the offset
\* reads as NUL.
write_at(content, off, chunk) ==
    [i \in 1..Max(Len(content), off + Len(chunk)) |->
        IF i > off /\ i <= off + Len(chunk) THEN chunk[i - off]
        ELSE IF i <= Len(content) THEN content[i]
        ELSE "NUL"]

\* save_cookies, line 498: the driver returns the cookies of the context.
shared_save_begin(j) ==
    /\ procs[j].pc = "idle"
    /\ \E cookies \in CookieLists :
        procs' = [procs EXCEPT ![j] =
                    [IdleProc EXCEPT !.pc = "open", !.op = "save",
                                     !.doc = dumps(cookies)]]
    /\ UNCHANGED <<files, saved, last, written>>
    /\ UNCHANGED <<pipeVars, resolverVars, det, tm, bz, hv, intr>>
    /\ UNCHANGED motionVars
    /\ UNCHANGED pureVars

\* save_cookies, line 501: open(cookie_file, 'w') creates or truncates.
shared_open(j) ==
    /\ procs[j].pc = "open"
    /\ files' = [files EXCEPT ![SharedPath] = FileOf(<<>>)]
    /\ procs' = [procs EXCEPT ![j].pc = "write", ![j].off = 0]
    /\ UNCHANGED <<saved, last, written>>
    /\ UNCHANGED <<pipeVars, resolverVars, det, tm, bz, hv, intr>>
    /\ UNCHANGED motionVars
    /\ UNCHANGED pureVars

\* save_cookies, lines 501-502: the text reaches the file in one or more
\* writes at the offset of this job's file object; the file is closed after
\* the last one.
shared_write(j) ==
    /\ procs[j].pc = "write"
    /\ \E k \in 1..(Len(procs[j].doc) - procs[j].off) :
        /\ files' = [files EXCEPT ![SharedPath] =
                        FileOf(write_at(files[SharedPath].content,
                                        procs[j].off,
                                        SubSeq(procs[j].doc, procs[j].off + 1,
                                               procs[j].off + k)))]
        /\ IF procs[j].off + k = Len(procs[j].doc)
           THEN /\ procs' = [procs EXCEPT ![j].pc = "idle",
                                          ![j].off = procs[j].off + k]
                /\ written' = written \cup {loads(procs[j].doc)}
           ELSE /\ procs' = [procs EXCEPT ![j].off = procs[j].off + k]
                /\ written' = written
    /\ UNCHANGED <<saved, last>>
    /\ UNCHANGED <<pipeVars, resolverVars, det, tm, bz, hv, intr>>
    /\ UNCHANGED motionVars
    /\ UNCHANGED pureVars

\* load_cookies, lines 523-524: the test for the file.
shared_load_begin(j) ==
    /\ procs[j].pc = "idle"
    /\ procs' = [procs EXCEPT ![j] =
                    IF files[SharedPath].exists
                    THEN [IdleProc EXCEPT !.pc = "read", !.op = "load"]
                    ELSE [IdleProc EXCEPT !.op = "load",
                                          !.outcome = "false"]]
    /\ UNCHANGED <<files, saved, last, written>>
    /\ UNCHANGED <<pipeVars, resolverVars, det, tm, bz, hv, intr>>
    /\ UNCHANGED motionVars
    /\ UNCHANGED pureVars

\* load_cookies, lines 526-531: the file is read and parsed, the cookies
\* are handed to the driver.
shared_read(j) ==
    /\ procs[j].pc = "read"
    /\ procs' = [procs EXCEPT ![j] =
                    [IdleProc EXCEPT
                        !.op = "load",
                        !.observed = files[SharedPath],
                        !.outcome = load_cookies(files[SharedPath],
                                                 "none").outcome,
                        !.cookies = load_cookies(files[SharedPath],
                                                 "none").cookies]]
    /\ UNCHANGED <<files, saved, last, written>>
    /\ UNCHANGED <<pipeVars, resolverVars, det, tm, bz, hv, intr>>
    /\ UNCHANGED motionVars
    /\ UNCHANGED pureVars

\* ------------------------------------------------------------------------
\* One homepage visit (navigate_to_homepage), call by call
\* ------------------------------------------------------------------------
\* The calls of the visit up to the cookie save, in order.  A call that
\* raises is the last one: line 157 catches the exception.
homepage_calls_before_save(adv, d) ==
    LET after_wait ==
            IF wait_for_page_load(d.settleOk, d.detected, d.resolved)
            THEN (IF adv
                  THEN <<"gaussian_delay", "human_like_mouse_movement",
                         "random_scroll_with_inertia">>
                  ELSE <<"random_delay", "human_like_mouse_movement",
                         "random_scroll">>)
            ELSE <<>>
        after_goto ==
            IF d.gotoOk THEN <<"wait_for_page_load">> \o after_wait
            ELSE <<>>
        after_viewport ==
            IF adv /\ ~d.viewportOk THEN <<>>
            ELSE <<"goto">> \o after_goto
        after_headers ==
            IF adv
            THEN (IF d.headersOk
                  THEN <<"set_viewport_size">> \o after_viewport
                  ELSE <<>>)
            ELSE after_viewport
        after_load ==
            IF adv /\ d.loaded = "raise" THEN <<>>
            ELSE (IF adv THEN <<"set_extra_http_headers">>
                         ELSE <<"add_realistic_headers">>) \o after_headers
    IN  IF adv
        THEN <<"inject_fingerprint_spoofing", "load_cookies">> \o after_load
        ELSE after_load

\* A visit that saves the cookies whatever happened before: the fault
\* C13_SessionCallOrder excludes.
homepage_calls_save_always(adv, d) ==
    homepage_calls_before_save(adv, d)
        \o (IF adv THEN <<"save_cookies">> ELSE <<>>)

\* navigate_to_homepage, lines 106-155: the calls of one visit, in order.
\* save_cookies (line 152) is reached when nothing before it raised and
\* wait_for_page_load returned True.
homepage_calls(adv, d) ==
    homepage_calls_before_save(adv, d)
        \o (IF adv /\ navigate_to_homepage(adv, [d EXCEPT !.saved = "none"])
            THEN <<"save_cookies">> ELSE <<>>)

\* The driver of a visit apart from the session store.
PageDriver ==
    [injectOk : BOOLEAN, headersOk : BOOLEAN, viewportOk : BOOLEAN,
     gotoOk : BOOLEAN, settleOk : BOOLEAN, detected : BOOLEAN,
     resolved : BOOLEAN]

\* inject_fingerprint_spoofing (lines 212-301): page.add_init_script
\* registers the script, or raises, which the method catches and logs.
inject_fingerprint_spoofing(injectOk) ==
    IF injectOk THEN "registered" ELSE "failed"

\* What is in effect on the page when navigate_to_homepage issues page.goto
\* (line 133): the init script when it was registered (line 112), the
\* extra headers (lines 121-124; an error ends the advanced visit, the
\* baseline's add_realistic_headers catches it) and the viewport (line 129).
applied_before_goto(adv, d, injectOk) ==
    (IF adv /\ inject_fingerprint_spoofing(injectOk) = "registered"
     THEN {"fingerprint"} ELSE {})
    \cup (IF d.headersOk THEN {"headers"} ELSE {})
    \cup (IF adv /\ d.viewportOk THEN {"viewport"} ELSE {})

\* The visit before its call: the session file, what goes wrong in the
\* store, the cookies of the context, and the driver, whose load_cookies and
\* save_cookies end as the store makes them end.
HomepageAt(file, loadFault, saveFault, cookies, b) ==
    [called |-> FALSE, file |-> file, loadFault |-> loadFault,
     saveFault |-> saveFault, cookies |-> cookies,
     injectOk |-> b.injectOk, applied |-> {},
     d |-> [headersOk |-> b.headersOk, viewportOk |-> b.viewportOk,
            gotoOk |-> b.gotoOk, settleOk |-> b.settleOk,
            detected |-> b.detected, resolved |-> b.resolved,
            loaded |-> load_cookies(file, loadFault).outcome,
            saved |-> save_cookies(file, cookies, saveFault).outcome],
     load |-> [outcome |-> "none", handed |-> FALSE, cookies |-> <<>>],
     save |-> "none", calls |-> <<>>, ret |-> FALSE]

HomepageIdle ==
    HomepageAt(Absent, "none", NoFault, <<>>,
               [injectOk |-> TRUE, headersOk |-> TRUE, viewportOk |-> TRUE,
                gotoOk |-> TRUE, settleOk |-> TRUE, detected |-> FALSE,
                resolved |-> FALSE])

\* One call of navigate_to_homepage.
visit_homepage ==
    /\ ~hv.called
    /\ hv' = [hv EXCEPT
                !.called = TRUE,
                !.load = load_cookies(hv.file, hv.loadFault),
                !.save = save_cookies(hv.file, hv.cookies,
                                      hv.saveFault).outcome,
                !.calls = homepage_calls(use_advanced, hv.d),
                !.applied = applied_before_goto(use_advanced, hv.d,
                                                hv.injectOk),
                !.ret = navigate_to_homepage(use_advanced, hv.d)]
    /\ UNCHANGED <<pipeVars, resolverVars, det, tm, bz, storeVars, intr>>
    /\ UNCHANGED motionVars
    /\ UNCHANGED pureVars

\* ------------------------------------------------------------------------
\* KeyboardInterrupt in the resolver loop
\* ------------------------------------------------------------------------
\* Where in the loop an interrupt can arrive, by the position of the
\* attempt: in one of the actions of the iteration, in the delay, or in one
\* of the probes of the detector poll.
InterruptPoints(adv, position, k) ==
    CASE position = "body" ->
            {iteration_actions(adv, k)[i] :
                i \in 1..Len(iteration_actions(adv, k))}
      [] position = "delay" -> {"delay"}
      [] position = "poll" ->
            IF adv THEN {"url", "dom", "network", "js"}
            ELSE {"content", "script"}
      [] OTHER -> {}

\* Whether a handler around the point catches a KeyboardInterrupt.  It is
\* not an Exception, so `except Exception` (lines 134, 164, 355, 469;
\* datadome.py 47, 68, 130, 164) lets it through; the bare `except:` of
\* _hover_random_element (484), _check_dom_indicators (391) and
\* _check_javascript_indicators (419) catches it.
interrupt_caught(adv, during) == adv /\ during \in {"hover", "dom", "js"}

NoInterrupt == [delivered |-> FALSE, during |-> "none", caught |-> FALSE,
                polls |-> 0, iteration |-> 0]

\* A KeyboardInterrupt arrives while the loop is in an action, in the delay
\* or in a probe.  Caught in the hover, the hover ends and the iteration
\* goes on to its delay; caught in a probe, the probe returns False and the
\* poll ends with the verdict of the other probes; not caught, it leaves
\* handle_datadome_challenge.
resolver_interrupt ==
    /\ rpc \in {"body", "delay", "poll"}
    /\ ~intr.delivered
    /\ \E during \in InterruptPoints(use_advanced, rpc, check_interval) :
        \E verdict \in VerdictsAdvanced :
            /\ IF ~interrupt_caught(use_advanced, during)
               THEN /\ rpc' = "raised"
                    /\ UNCHANGED <<ret, verdicts, acts>>
               ELSE IF during = "hover"
               THEN /\ rpc' = "delay"
                    /\ acts' = acts \o iteration_actions(use_advanced,
                                                         check_interval)
                    /\ UNCHANGED <<ret, verdicts>>
               ELSE /\ verdicts' = Append(verdicts, verdict)
                    /\ acts' = Append(acts, "poll")
                    /\ IF challenge_resolved(verdict)
                       THEN rpc' = "returned" /\ ret' = TRUE
                       ELSE rpc' = "head" /\ ret' = ret
            /\ intr' = [delivered |-> TRUE, during |-> during,
                        caught |-> interrupt_caught(use_advanced, during),
                        polls |-> Len(verdicts'),
                        iteration |-> check_interval]
    /\ UNCHANGED <<max_wait, now, start_time, check_interval, soft, last_poll>>
    /\ UNCHANGED <<pipeVars, det, tm, bz, storeVars, hv>>
    /\ UNCHANGED motionVars
    /\ UNCHANGED pureVars

\* ------------------------------------------------------------------------
\* Calls of the pure functions: PriceParser.parse_prices (parser.py),
\* match_intent_to_bookings (verify/matcher.py) and disambiguate_location
\* (verify/location.py)
\* ------------------------------------------------------------------------
MaxParse == 3       \* cards of one results page

\* The price texts of the cards _find_train_cards returns: the formats of
\* the comment at line 207, a price of zero and a card without a price.
ParserCards == {"25€", "25,50 €", "EUR 40", "0€", "Complet"}

ParserIdle == [called |-> FALSE]
MatcherIdle == [called |-> FALSE]
LocationIdle == [called |-> FALSE]
FnIdle == [called |-> FALSE]

PureIdle ==
    /\ fn = FnIdle
    /\ pr = ParserIdle
    /\ mt = MatcherIdle
    /\ loc = LocationIdle

\* What every variable but pr, mt and loc holds while a pure function is
\* called: no job, no attempt and no store call is under way.
ProgramIdle ==
    /\ PipelineInit
    /\ StoreIdle
    /\ hv = HomepageIdle
    /\ intr = NoInterrupt
    /\ mouse_position = <<0, 0>>
    /\ mv = NoPath
    /\ use_advanced = TRUE
    /\ debug = FALSE
    /\ ResolverIdle
    /\ max_wait = 0
    /\ det = DetectorIdle
    /\ tm = TimingIdle
    /\ bz = BezierIdle

\* ---- verify/location.py ----
\* Text: a Python str is a TLA+ string, a character is a string of length 1.
\* None and the empty str are both written "" where the code only tests
\* the truth of the value.
CharAt(s, i) == SubSeq(s, i, i)

\* str.lower() on one character (ASCII letters).
lower_char(c) ==
    CASE c = "A" -> "a" [] c = "B" -> "b" [] c = "C" -> "c" [] c = "D" -> "d"
      [] c = "E" -> "e" [] c = "F" -> "f" [] c = "G" -> "g" [] c = "H" -> "h"
      [] c = "I" -> "i" [] c = "J" -> "j" [] c = "K" -> "k" [] c = "L" -> "l"
      [] c = "M" -> "m" [] c = "N" -> "n" [] c = "O" -> "o" [] c = "P" -> "p"
      [] c = "Q" -> "q" [] c = "R" -> "r" [] c = "S" -> "s" [] c = "T" -> "t"
      [] c = "U" -> "u" [] c = "V" -> "v" [] c = "W" -> "w" [] c = "X" -> "x"
      [] c = "Y" -> "y" [] c = "Z" -> "z" [] OTHER -> c

RECURSIVE str_lower(_)
\* str.lower()
str_lower(s) ==
    IF Len(s) = 0 THEN ""
    ELSE lower_char(CharAt(s, 1)) \o str_lower(SubSeq(s, 2, Len(s)))

RECURSIVE lstrip(_)
lstrip(s) ==
    IF Len(s) = 0 THEN ""
    ELSE IF CharAt(s, 1) = " " THEN lstrip(SubSeq(s, 2, Len(s))) ELSE s

RECURSIVE rstrip(_)
rstrip(s) ==
    IF Len(s) = 0 THEN ""
    ELSE IF CharAt(s, Len(s)) = " " THEN rstrip(SubSeq(s, 1, Len(s) - 1))
    ELSE s

\* str.strip()
strip(s) == rstrip(lstrip(s))

\* Python's "t in s" on two str.
is_substring(t, s) ==
    \/ Len(t) = 0
    \/ \E i \in 1..(Len(s) - Len(t) + 1) : SubSeq(s, i, i + Len(t) - 1) = t

Station(name, code, primary) ==
    [name |-> name, code |-> code, primary |-> primary]

\* The keys of CITY_STATIONS in the order of the dict (lines 17-62).
CityKeys == <<"madrid", "barcelona", "valencia", "sevilla", "seville",
              "malaga", "málaga", "bilbao", "zaragoza", "alicante",
              "cordoba", "córdoba", "granada">>

\* CITY_STATIONS (lines 17-62).
CITY_STATIONS(city) ==
    CASE city = "madrid" ->
            <<Station("Madrid Pta.Atocha - Almudena Grandes", "60000", TRUE),
              Station("Madrid-Chamartín-Clara Campoamor", "17000", FALSE),
              Station("Madrid - Atocha Cercanías", "18000", FALSE)>>
      [] city = "barcelona" ->
            <<Station("Barcelona-Sants", "71801", TRUE),
              Station("Barcelona-Passeig de Gràcia", "71802", FALSE),
              Station("Barcelona-Estació de França", "71803", FALSE)>>
      [] city = "valencia" ->
            <<Station("Valencia Joaquín Sorolla", "65000", TRUE),
              Station("Valencia Nord", "65001", FALSE)>>
      [] city \in {"sevilla", "seville"} ->
            <<Station("Sevilla-Santa Justa", "51003", TRUE)>>
      [] city \in {"malaga", "málaga"} ->
            <<Station("Málaga María Zambrano", "31002", TRUE)>>
      [] city = "bilbao" ->
            <<Station("Bilbao-Abando Indalecio Prieto", "13002", TRUE)>>
      [] city = "zaragoza" -> <<Station("Zaragoza-Delicias", "70002", TRUE)>>
      [] city = "alicante" -> <<Station("Alicante Terminal", "69001", TRUE)>>
      [] city \in {"cordoba", "córdoba"} ->
            <<Station("Córdoba Central", "50001", TRUE)>>
      [] city = "granada" -> <<Station("Granada", "30001", TRUE)>>

is_city_key(city) == \E k \in 1..Len(CityKeys) : CityKeys[k] = city

\* Lines 80 and 95: the first station flagged primary, else the first.
primary_station(stations) ==
    IF \E i \in 1..Len(stations) : stations[i].primary
    THEN stations[CHOOSE i \in 1..Len(stations) :
                    /\ stations[i].primary
                    /\ \A j \in 1..(i - 1) : ~stations[j].primary]
    ELSE stations[1]

RECURSIVE station_names_but(_, _)
\* Lines 82 and 96: the names of the stations other than the primary one;
\* the empty list stands for None (lines 89, 103).
station_names_but(stations, name) ==
    IF stations = <<>> THEN <<>>
    ELSE IF Head(stations).name # name
    THEN <<Head(stations).name>> \o station_names_but(Tail(stations), name)
    ELSE station_names_but(Tail(stations), name)

StationMatch(name, code, confidence, is_ambiguous, alternatives) ==
    [name |-> name, code |-> code, confidence |-> confidence,
     is_ambiguous |-> is_ambiguous, alternatives |-> alternatives]

\* The confidences of lines 87, 101 and 110, in hundredths.
ConfidenceSingle == 100
ConfidenceMulti == 80
ConfidenceFuzzy == 70
ConfidenceUnknown == 30

\* A fuzzy search that also takes a key sharing the first letter of the
\* name: the fault C30_UnknownCity excludes.
fuzzy_keys_loose(city_lower) ==
    {k \in 1..Len(CityKeys) :
        \/ is_substring(CityKeys[k], city_lower)
        \/ is_substring(city_lower, CityKeys[k])
        \/ CharAt(CityKeys[k], 1) = SubSeq(city_lower, 1, 1)}

\* Line 94: the keys that contain the name or are contained in it.
fuzzy_keys(city_lower) ==
    {k \in 1..Len(CityKeys) :
        \/ is_substring(CityKeys[k], city_lower)
        \/ is_substring(city_lower, CityKeys[k])}

\* disambiguate_location (lines 65-113).
disambiguate_location(city_name) ==
    LET city_lower == strip(str_lower(city_name))
        candidates == fuzzy_keys(city_lower)
    IN  IF is_city_key(city_lower)
        THEN LET stations == CITY_STATIONS(city_lower)
                 primary == primary_station(stations)
             IN  StationMatch(primary.name, primary.code,
                              IF Len(stations) = 1 THEN ConfidenceSingle
                              ELSE ConfidenceMulti,
                              Len(stations) > 1,
                              station_names_but(stations, primary.name))
        ELSE IF candidates # {}
        THEN LET k == CHOOSE i \in candidates : \A j \in candidates : i <= j
                 stations == CITY_STATIONS(CityKeys[k])
                 primary == primary_station(stations)
             IN  StationMatch(primary.name, primary.code, ConfidenceFuzzy,
                              TRUE,
                              station_names_but(stations, primary.name))
        ELSE StationMatch(city_name, "", ConfidenceUnknown, TRUE, <<>>)

MaxPad == 1         \* blanks before and after a city name

\* City names as a user writes them: keys of the table in several
\* spellings, names that share text with a key, names that share none.
CityWords ==
    {"Madrid", "MADRID", "madrid", "Barcelona", "barcelona", "Valencia",
     "Sevilla", "SEVILLA", "Seville", "Malaga", "Bilbao", "Zaragoza",
     "Alicante", "Cordoba", "Granada", "granada",
     "Madrid Atocha", "Valencia Nord", "Mad", "Gran", "a", "",
     "Atlantis", "Nowhere", "Paris", "Lisboa", "Porto"}

RECURSIVE blanks(_)
blanks(n) == IF n = 0 THEN "" ELSE " " \o blanks(n - 1)

CityNames ==
    {blanks(l) \o w \o blanks(t) :
        l \in 0..MaxPad, t \in 0..MaxPad, w \in CityWords}

NoMatch == StationMatch("", "", 0, FALSE, <<>>)

LocationAt(city_name) ==
    [called |-> FALSE, city_name |-> city_name, match |-> NoMatch]

\* disambiguate_location(city_name).
call_disambiguate_location ==
    /\ ~loc.called
    /\ loc' = [loc EXCEPT !.called = TRUE,
                          !.match = disambiguate_location(loc.city_name)]
    /\ UNCHANGED <<pipeVars, resolverVars, det, tm, bz, storeVars, hv, intr,
                   motionVars, pr, mt, fn>>

\* ---- verify/datetime_parser.py ----
Digits == "0123456789"

is_digit(c) == \E i \in 1..Len(Digits) : CharAt(Digits, i) = c

digit_value(c) == (CHOOSE i \in 1..Len(Digits) : CharAt(Digits, i) = c) - 1

\* int(text) raised ValueError.
NoInt == 0 - 1

RECURSIVE int_of_digits(_, _)
int_of_digits(text, acc) ==
    IF Len(text) = 0 THEN acc
    ELSE int_of_digits(SubSeq(text, 2, Len(text)),
                       10 * acc + digit_value(CharAt(text, 1)))

\* int(text) for a text without sign: the number, or NoInt for ValueError.
int_of(text) ==
    LET t == strip(text)
    IN  IF Len(t) > 0 /\ \A i \in 1..Len(t) : is_digit(CharAt(t, i))
        THEN int_of_digits(t, 0)
        ELSE NoInt

RECURSIVE without_char(_, _)
\* text.replace(c, "")
without_char(text, c) ==
    IF Len(text) = 0 THEN ""
    ELSE IF CharAt(text, 1) = c THEN without_char(SubSeq(text, 2, Len(text)), c)
    ELSE CharAt(text, 1) \o without_char(SubSeq(text, 2, Len(text)), c)

\* text.split(":")[0]
before_colon(text) ==
    IF is_substring(":", text)
    THEN SubSeq(text, 1,
                (CHOOSE i \in 1..Len(text) :
                    /\ CharAt(text, i) = ":"
                    /\ \A j \in 1..(i - 1) : CharAt(text, j) # ":") - 1)
    ELSE text

HourRange(min_hour, max_hour) == [min_hour |-> min_hour, max_hour |-> max_hour]

\* (None, None)
NoHour == 0 - 1
NoRange == HourRange(NoHour, NoHour)

\* The time periods of TIME_RANGES (lines 9-16).
TimePeriods == {"morning", "afternoon", "evening", "night", "early", "late"}

\* TIME_RANGES (lines 9-16).
TIME_RANGES(period) ==
    CASE period = "morning" -> HourRange(6, 12)
      [] period = "afternoon" -> HourRange(12, 18)
      [] period = "evening" -> HourRange(18, 23)
      [] period = "night" -> HourRange(20, 24)
      [] period = "early" -> HourRange(5, 9)
      [] period = "late" -> HourRange(18, 24)

\* Lines 103 and 110: the window of two hours around a given hour.
hour_window(hour) == HourRange(Max(0, hour - 1), Min(23, hour + 1))

\* parse_time_preference (lines 78-114).
parse_time_preference(time_pref) ==
    LET time_lower == strip(str_lower(time_pref))
        hour == int_of(before_colon(time_pref))
        just_hour == int_of(without_char(without_char(time_pref, "h"), "H"))
    IN  IF time_pref = "" THEN NoRange
        ELSE IF time_lower \in TimePeriods THEN TIME_RANGES(time_lower)
        ELSE IF is_substring(":", time_pref) /\ hour # NoInt
        THEN hour_window(hour)
        ELSE IF just_hour # NoInt THEN hour_window(just_hour)
        ELSE NoRange

\* One thousandth is the unit of a time confidence and of a score.
TimeResult(outcome, matches, confidence) ==
    [outcome |-> outcome, matches |-> matches, confidence |-> confidence]

Abs(n) == IF n < 0 THEN 0 - n ELSE n

\* is_time_in_preference (lines 117-150) for a departure at the given hour.
\* Line 146 divides by half the width of the range: ZeroDivisionError when
\* the range is one hour wide and the departure is in it.
is_time_in_preference(hour, time_preference) ==
    LET range == parse_time_preference(time_preference)
        min_hour == range.min_hour
        max_hour == range.max_hour
    IN  IF time_preference = "" THEN TimeResult("return", TRUE, 1000)
        ELSE IF min_hour = NoHour THEN TimeResult("return", TRUE, 500)
        ELSE IF min_hour <= hour /\ hour <= max_hour
        THEN IF max_hour = min_hour
             THEN TimeResult("raise", FALSE, 0)
             ELSE TimeResult("return", TRUE,
                      1000 - (300 * Abs(2 * hour - (min_hour + max_hour)))
                                 \div (max_hour - min_hour))
        ELSE TimeResult("return", FALSE, 0)

\* parse_datetime (lines 19-75) and the comparison of line 98 of
\* matcher.py, for the dates of the model: "unparsed" for None, else
\* whether the date is before or after datetime.now().
parse_datetime(date) ==
    CASE date = "tomorrow" -> "future"
      [] date = "01/01/2020" -> "past"
      [] OTHER -> "unparsed"

\* ---- verify/matcher.py ----
MaxBookings == 2    \* bookings of one call, but for the long lists below
TopMatches == 5     \* final_bookings[:5]

UserIntent(destination, origin, date, time_preference) ==
    [destination |-> destination, origin |-> origin, date |-> date,
     time_preference |-> time_preference]

\* A booking is its departure hour and its availability; the bookings of
\* one call are told apart by their index in available_bookings.
TrainBooking(hour, available) == [hour |-> hour, available |-> available]

VerificationWarning(type, severity) == [type |-> type, severity |-> severity]

\* The factor a finding multiplies the confidence by, in twentieths
\* (lines 41, 51, 60, 69, 79, 88, 97, 104, 114); a step without a finding
\* multiplies by twenty twentieths.
twentieths(finding) ==
    CASE finding = "no destination" -> 6            \* 0.3
      [] finding = "ambiguous destination" -> 16    \* 0.8
      [] finding = "unknown destination" -> 10      \* 0.5
      [] finding = "no origin" -> 18                \* 0.9
      [] finding = "ambiguous origin" -> 17         \* 0.85
      [] finding = "no date" -> 18                  \* 0.9
      [] finding = "unparsed date" -> 10            \* 0.5
      [] finding = "past date" -> 6                 \* 0.3
      [] finding = "ambiguous time" -> 19           \* 0.95
      [] finding = "none" -> 20

\* The five steps of lines 34-114 each multiply by a number of twentieths.
ConfidenceScale == 20 * 20 * 20 * 20 * 20

\* Lines 35-60: the findings on the destination, in the order of the code.
destination_findings(destination) ==
    IF destination = "" THEN <<"no destination", "none">>
    ELSE LET dest_match == disambiguate_location(destination)
         IN  <<IF dest_match.is_ambiguous /\ dest_match.alternatives # <<>>
               THEN "ambiguous destination" ELSE "none",
               IF dest_match.confidence < 50
               THEN "unknown destination" ELSE "none">>

\* Lines 63-79.
origin_findings(origin) ==
    IF origin = "" THEN <<"no origin">>
    ELSE LET origin_match == disambiguate_location(origin)
         IN  <<IF origin_match.is_ambiguous /\ origin_match.alternatives # <<>>
               THEN "ambiguous origin" ELSE "none">>

\* Lines 82-104.
date_findings(date) ==
    IF date = "" THEN <<"no date">>
    ELSE IF parse_datetime(date) = "unparsed" THEN <<"unparsed date">>
    ELSE IF parse_datetime(date) = "past" THEN <<"past date">>
    ELSE <<"none">>

\* Lines 107-114.
time_findings(time_preference) ==
    IF time_preference \in {"morning", "afternoon", "evening"}
    THEN <<"ambiguous time">>
    ELSE <<"none">>

findings(intent) ==
    destination_findings(intent.destination) \o origin_findings(intent.origin)
        \o date_findings(intent.date)
        \o time_findings(intent.time_preference)

\* The warning appended for a finding.
warning_of(finding) ==
    CASE finding \in {"no destination", "unknown destination"} ->
            VerificationWarning("location", "high")
      [] finding \in {"ambiguous destination", "ambiguous origin"} ->
            VerificationWarning("location", "medium")
      [] finding = "no origin" -> VerificationWarning("location", "low")
      [] finding \in {"no date", "ambiguous time"} ->
            VerificationWarning("time", "low")
      [] finding \in {"unparsed date", "past date"} ->
            VerificationWarning("time", "high")

RECURSIVE warnings_of(_)
warnings_of(found) ==
    IF found = <<>> THEN <<>>
    ELSE IF Head(found) = "none" THEN warnings_of(Tail(found))
    ELSE <<warning_of(Head(found))>> \o warnings_of(Tail(found))

RECURSIVE confidence_of(_)
\* confidence, as a number of ConfidenceScale-ths.
confidence_of(found) ==
    IF found = <<>> THEN 1
    ELSE twentieths(Head(found)) * confidence_of(Tail(found))

\* A score that takes no account of availability: the fault
\* C28_UnavailableLast excludes.
booking_score_time_only(booking, time_confidence) == 10 * time_confidence

\* Lines 120-135: the score of a matched booking, in ten-thousandths.
booking_score(booking, time_confidence) ==
    IF booking.available THEN 10 * time_confidence ELSE time_confidence

\* The loop of lines 119-137 left by an exception.
LoopRaised == <<[booking |-> 0, score |-> 0 - 1]>>

RECURSIVE scored_from(_, _, _)
\* Lines 119-137, from the booking of index i on: the bookings kept, each
\* with its index in available_bookings and its score, in the order given;
\* LoopRaised when line 123 raises for one of them.
scored_from(intent, bookings, i) ==
    IF i > Len(bookings) THEN <<>>
    ELSE LET time == is_time_in_preference(bookings[i].hour,
                                           intent.time_preference)
             rest == scored_from(intent, bookings, i + 1)
         IN  IF time.outcome = "raise" \/ rest = LoopRaised THEN LoopRaised
             ELSE IF ~time.matches THEN rest
             ELSE <<[booking |-> i,
                     score |-> booking_score(bookings[i], time.confidence)]>>
                      \o rest

\* Line 140: list.sort by score with reverse=True; the sort is stable,
\* bookings of one score keep the order in which they were given.
sort_by_score(matched_bookings) ==
    LET before(a, b) ==
            \/ matched_bookings[a].score > matched_bookings[b].score
            \/ /\ matched_bookings[a].score = matched_bookings[b].score
               /\ a < b
        places == 1..Len(matched_bookings)
    IN  [k \in places |->
            matched_bookings[
                CHOOSE a \in places :
                    Cardinality({b \in places : before(b, a)}) = k - 1]]

RECURSIVE bookings_of(_)
\* Line 143: [b for b, _ in matched_bookings].
bookings_of(matched_bookings) ==
    IF matched_bookings = <<>> THEN <<>>
    ELSE <<Head(matched_bookings).booking>>
            \o bookings_of(Tail(matched_bookings))

\* Every match is returned: the fault C27_NoPreferenceMatchesAll excludes.
top_matches_all(final_bookings) == final_bookings

\* Line 160: final_bookings[:5].
top_matches(final_bookings) ==
    SubSeq(final_bookings, 1, Min(TopMatches, Len(final_bookings)))

\* None as recommended_booking.
NoBooking == 0

\* A verdict that does not look at the availability of the booking it
\* recommends: the fault C29_SafeToBook excludes.
safe_to_book_unchecked(confidence, warnings, recommended, bookings) ==
    /\ 10 * confidence >= 7 * ConfidenceScale
    /\ \A w \in 1..Len(warnings) : warnings[w].severity # "high"
    /\ recommended # NoBooking

\* Lines 147-152.
safe_to_book(confidence, warnings, recommended, bookings) ==
    /\ 10 * confidence >= 7 * ConfidenceScale
    /\ \A w \in 1..Len(warnings) : warnings[w].severity # "high"
    /\ recommended # NoBooking
    /\ bookings[recommended].available

\* round(confidence, 2), in hundredths.
round_hundredths(confidence) ==
    (100 * confidence + ConfidenceScale \div 2) \div ConfidenceScale

NoResult == [confidence |-> 0, safe_to_book |-> FALSE, warnings |-> <<>>,
             matched_bookings |-> <<>>, recommended_booking |-> NoBooking]

\* match_intent_to_bookings (lines 16-162) when it returns, the loop of
\* lines 119-137 having kept matched_bookings.
VerificationResult(intent, bookings, matched_bookings) ==
    LET found == findings(intent)
        warnings == warnings_of(found)
        confidence == confidence_of(found)
        final_bookings == bookings_of(sort_by_score(matched_bookings))
        recommended == IF final_bookings # <<>> THEN final_bookings[1]
                       ELSE NoBooking
    IN  [confidence |-> round_hundredths(confidence),
         safe_to_book |-> safe_to_book(confidence, warnings, recommended,
                                       bookings),
         warnings |-> warnings,
         matched_bookings |-> top_matches(final_bookings),
         recommended_booking |-> recommended]

\* The intents and the bookings of the model.
Destinations == {"", "Sevilla", "Barcelona", "Atlantis"}
Origins == {"", "Granada", "Madrid"}
Dates == {"", "tomorrow", "01/01/2020", "soon"}
TimePreferences == {"", "morning", "afternoon", "09:00", "24:00", "whenever"}
DepartureHours == {9, 12, 18, 23}

Intents ==
    {UserIntent(d, o, t, p) : d \in Destinations, o \in Origins, t \in Dates,
                              p \in TimePreferences}

Bookings == {TrainBooking(h, a) : h \in DepartureHours, a \in BOOLEAN}

\* The lists of up to MaxBookings bookings, and the lists of one booking
\* more than TopMatches that all depart at noon.
BookingLists ==
    SeqsUpTo(Bookings, MaxBookings)
        \cup {[i \in 1..(TopMatches + 1) |-> TrainBooking(12, a[i])] :
                  a \in [1..(TopMatches + 1) -> BOOLEAN]}

MatcherAt(intent, bookings) ==
    [called |-> FALSE, intent |-> intent, bookings |-> bookings,
     outcome |-> "none", result |-> NoResult]

\* match_intent_to_bookings(intent, available_bookings).
call_match_intent_to_bookings ==
    /\ ~mt.called
    /\ LET matched_bookings == scored_from(mt.intent, mt.bookings, 1)
       IN  IF matched_bookings = LoopRaised
           THEN mt' = [mt EXCEPT !.called = TRUE, !.outcome = "raise"]
           ELSE mt' = [mt EXCEPT
                         !.called = TRUE,
                         !.outcome = "return",
                         !.result = VerificationResult(mt.intent, mt.bookings,
                                                       matched_bookings)]
    /\ UNCHANGED <<pipeVars, resolverVars, det, tm, bz, storeVars, hv, intr,
                   motionVars, pr, loc, fn>>

\* ---- pace of a played path (human_like_mouse_movement) ----
\* Lines 121-127: the range the delay before point i of a path of n points
\* is drawn from.  progress = i / n is compared with 0.2 and 0.8; in whole
\* numbers, 5 * i with n and with 4 * n.
step_delay_range(i, n) ==
    IF 5 * i < n \/ 5 * i > 4 * n THEN "slow" ELSE "fast"

\* Line 66: the curve has steps + 1 points, for t = i / steps, i = 0..steps.
curve_length(steps) == steps + 1

PaceAt(steps, i) ==
    [called |-> FALSE, steps |-> steps, i |-> i, range |-> "none"]

\* One turn of the loop of lines 121-130, up to the choice of the delay.
choose_step_delay ==
    /\ ~fn.called
    /\ fn' = [fn EXCEPT !.called = TRUE,
                        !.range = step_delay_range(fn.i,
                                                   curve_length(fn.steps))]
    /\ UNCHANGED <<pipeVars, resolverVars, det, tm, bz, storeVars, hv, intr,
                   motionVars, pr, mt, loc>>

\* ---- is_time_in_preference on the preferences of the intent parser ----
\* f"{hour:02d}" and str(hour) for an hour below 100.
two_digits(hour) ==
    CharAt(Digits, (hour \div 10) + 1) \o CharAt(Digits, (hour % 10) + 1)

decimal(hour) ==
    IF hour < 10 THEN CharAt(Digits, hour + 1) ELSE two_digits(hour)

\* The hours a preference can name and the hours of a departure.
PreferenceHours == 0..24
HoursOfDay == 0..23

\* The preferences with an hour window: the named periods, the "HH:MM"
\* texts _extract_time_preference builds (intent_parser.py line 169) and
\* bare hours, with and without an "h".
WindowPreferences ==
    TimePeriods
        \cup {two_digits(h) \o ":" \o minutes :
                h \in PreferenceHours, minutes \in {"00", "30"}}
        \cup {decimal(h) \o suffix :
                h \in PreferenceHours, suffix \in {"", "h"}}

TimeAt(hour, time_preference) ==
    [called |-> FALSE, hour |-> hour, time_preference |-> time_preference,
     range |-> NoRange, result |-> TimeResult("none", FALSE, 0)]

\* is_time_in_preference(departure_time, time_preference).
call_is_time_in_preference ==
    /\ ~fn.called
    /\ fn' = [fn EXCEPT
                !.called = TRUE,
                !.range = parse_time_preference(fn.time_preference),
                !.result = is_time_in_preference(fn.hour,
                                                 fn.time_preference)]
    /\ UNCHANGED <<pipeVars, resolverVars, det, tm, bz, storeVars, hv, intr,
                   motionVars, pr, mt, loc>>

\* ---- one detector call inside wait_for_page_load ----
\* The page on which every driver call of the detector raises.
RaisingPage ==
    [url |-> "raise", element |-> "raise", body |-> "raise", js |-> "raise",
     script |-> "raise"]

\* mode "load": the detector call of wait_for_page_load itself sees `page`.
\* mode "poll": that call fired, and the first poll of the resolver sees
\* `page`.  later: what the resolver returns when it goes on polling.
PollAt(adv, mode, page, later) ==
    [called |-> FALSE, adv |-> adv, mode |-> mode, page |-> page,
     later |-> later, verdict |-> FALSE, resolver |-> "none",
     result |-> FALSE, next |-> "none"]

\* The homepage visit in which nothing fails outside wait_for_page_load.
visit_with(detected, resolved) ==
    [headersOk |-> TRUE, viewportOk |-> TRUE, gotoOk |-> TRUE,
     settleOk |-> TRUE, detected |-> detected, resolved |-> resolved,
     loaded |-> "false", saved |-> "none"]

\* wait_for_page_load on the homepage (scraper.py 136) with the detector
\* call fn.mode names made on fn.page, and the stage scrape() goes to.
call_detector_in_wait ==
    /\ ~fn.called
    /\ LET verdict == check_datadome_challenge(fn.adv, fn.page)
           detected == IF fn.mode = "load" THEN verdict ELSE TRUE
           resolved ==
               IF fn.mode = "poll" /\ challenge_resolved(verdict)
               THEN TRUE             \* 459-461, datadome.py 157-159
               ELSE fn.later
       IN  fn' = [fn EXCEPT
                    !.called = TRUE,
                    !.verdict = verdict,
                    !.resolver = IF ~detected THEN "none"
                                 ELSE IF resolved THEN "true" ELSE "false",
                    !.result = wait_for_page_load(TRUE, detected, resolved),
                    !.next = after_homepage(
                                navigate_to_homepage(
                                    fn.adv, visit_with(detected, resolved)))]
    /\ UNCHANGED <<pipeVars, resolverVars, det, tm, bz, storeVars, hv, intr,
                   motionVars, pr, mt, loc>>

\* ---- parser._find_train_cards (parser.py lines 49-82) ----
MaxElements == 2    \* elements of one page
Selectors == 1..7   \* the list `selectors` of lines 60-68, by position

\* An element of the page: the selectors it matches (none, one or two),
\* and whether the lambda of lines 76-80 accepts it (a div, article, li or
\* section holding a currency token or a price class).
Elements ==
    {[matches |-> ms, priced |-> p] :
        ms \in {{}} \cup {{a, b} : a, b \in Selectors},
        p \in BOOLEAN}

RECURSIVE positions_from(_, _, _)
\* The positions from i on of the elements that match selector k (k = 0:
\* that the lambda accepts), in document order, as soup.select and
\* soup.find_all return them.
positions_from(page, i, k) ==
    IF i > Len(page) THEN <<>>
    ELSE (IF (k = 0 /\ page[i].priced) \/ k \in page[i].matches
          THEN <<i>> ELSE <<>>)
            \o positions_from(page, i + 1, k)

\* soup.select(selectors[k]) (line 71).
select(page, k) == positions_from(page, 1, k)

\* soup.find_all(lambda ...) (lines 76-80).
price_containers(page) == positions_from(page, 1, 0)

CardsFound(cards, consulted, heuristic) ==
    [cards |-> cards, consulted |-> consulted, heuristic |-> heuristic]

RECURSIVE find_train_cards_last(_, _)
\* A search that returns the matches of the last selector that has any:
\* the fault C35_SelectorChain excludes.
find_train_cards_last(page, k) ==
    IF k > 7 THEN CardsFound(price_containers(page), Selectors, TRUE)
    ELSE LET rest == find_train_cards_last(page, k + 1)
         IN  IF select(page, k) # <<>> /\ rest.heuristic
             THEN CardsFound(select(page, k), Selectors, FALSE)
             ELSE rest

RECURSIVE find_train_cards(_, _)
\* _find_train_cards, lines 70-82, from selector k on: the cards returned,
\* the selectors passed to soup.select and whether find_all was called.
find_train_cards(page, k) ==
    IF k > 7 THEN CardsFound(price_containers(page), Selectors, TRUE)
    ELSE IF select(page, k) # <<>>
         THEN CardsFound(select(page, k), 1..k, FALSE)
         ELSE find_train_cards(page, k + 1)

FindAt(page) ==
    [called |-> FALSE, page |-> page, found |-> CardsFound(<<>>, {}, FALSE)]

\* parser._find_train_cards(soup) on the page fn.page.
call_find_train_cards ==
    /\ ~fn.called
    /\ fn' = [fn EXCEPT !.called = TRUE,
                        !.found = find_train_cards(fn.page, 1)]
    /\ UNCHANGED <<pipeVars, resolverVars, det, tm, bz, storeVars, hv, intr,
                   motionVars, pr, mt, loc>>

\* ---- wait_for_page_load, call by call ----
\* A wait that runs the detector whether or not the network settled: the
\* fault C34_PageLoadGate excludes.
wait_for_page_load_calls_unguarded(adv, settleOk, detected) ==
    <<"wait_for_load_state">>
        \o (IF adv THEN <<"gaussian_delay">> ELSE <<>>)
        \o <<"check_datadome_challenge">>
        \o (IF detected THEN <<"handle_datadome_challenge">> ELSE <<>>)

\* The calls wait_for_page_load makes (datadome_advanced.py 588-601,
\* datadome.py 82-92).  A wait_for_load_state that raises is the last
\* call: the handler returns False.
wait_for_page_load_calls(adv, settleOk, detected) ==
    <<"wait_for_load_state">>
        \o (IF settleOk
            THEN (IF adv THEN <<"gaussian_delay">> ELSE <<>>)
                    \o <<"check_datadome_challenge">>
                    \o (IF detected THEN <<"handle_datadome_challenge">>
                                     ELSE <<>>)
            ELSE <<>>)

\* TRUE when the stage gets as far as its call of wait_for_page_load
\* (scraper.py 136 and 266).  The wait is the last step of search_route, so
\* the search reaches it exactly when it would succeed on a clean load.
stage_reaches_wait(adv, stage, d) ==
    IF stage = "homepage"
    THEN \E k \in 1..Len(homepage_calls_before_save(adv, d)) :
            homepage_calls_before_save(adv, d)[k] = "wait_for_page_load"
    ELSE search_route(adv, [d EXCEPT !.settleOk = TRUE, !.detected = FALSE])

stage_result(adv, stage, d) ==
    IF stage = "homepage" THEN navigate_to_homepage(adv, d)
    ELSE search_route(adv, d)

PageLoadAt(adv, stage, d) ==
    [called |-> FALSE, adv |-> adv, stage |-> stage, d |-> d,
     reached |-> FALSE, waitCalls |-> <<>>, result |-> "none",
     stage_result |-> "none"]

\* One run of a stage, with the wait_for_page_load it calls.
call_wait_for_page_load ==
    /\ ~fn.called
    /\ LET reached == stage_reaches_wait(fn.adv, fn.stage, fn.d)
       IN  fn' = [fn EXCEPT
                    !.called = TRUE,
                    !.reached = reached,
                    !.waitCalls =
                        IF reached
                        THEN wait_for_page_load_calls(fn.adv, fn.d.settleOk,
                                                      fn.d.detected)
                        ELSE <<>>,
                    !.result =
                        IF ~reached THEN "none"
                        ELSE IF wait_for_page_load(fn.d.settleOk,
                                                   fn.d.detected,
                                                   fn.d.resolved)
                             THEN "true" ELSE "false",
                    !.stage_result =
                        IF stage_result(fn.adv, fn.stage, fn.d)
                        THEN "true" ELSE "false"]
    /\ UNCHANGED <<pipeVars, resolverVars, det, tm, bz, storeVars, hv, intr,
                   motionVars, pr, mt, loc>>

\* ---- random_scroll_with_inertia (lines 137-165) ----
ScrollMin == 300    \* scroll_distance = random.randint(300, 1000)
ScrollMax == 1000
ScrollStepsMin == 8 \* steps = random.randint(8, 15)
ScrollStepsMax == 15
AdjustMax == 50     \* adjustment = random.randint(-50, 50)

\* A scroll of equal steps: the fault C33_InertialScroll excludes.
step_distance_even(scroll_distance, steps, i, low) == scroll_distance \div steps

\* Line 153: int(scroll_distance * (1 - i / steps) / steps * 2), that is
\* 2 * scroll_distance * (steps - i) / steps^2 cut to a whole number.  The
\* floating-point value of a whole quotient may fall just below it, and
\* int() then gives one less (low).
step_distance(scroll_distance, steps, i, low) ==
    LET num == 2 * scroll_distance * (steps - i)
        den == steps * steps
    IN  IF low /\ num % den = 0 THEN num \div den - 1 ELSE num \div den

ScrollEvent(what, delta) == [what |-> what, delta |-> delta]

RECURSIVE scroll_steps(_, _)
\* Lines 151-155: the window.scrollBy calls of the steps from i on.  The
\* pauses of line 155 are plain sleeps and are not recorded.
scroll_steps(c, i) ==
    IF i >= c.steps THEN <<>>
    ELSE <<ScrollEvent("scroll",
                       c.direction
                         * step_distance(c.scroll_distance, c.steps, i,
                                         IF i % 2 = 0 THEN c.lowEven
                                                      ELSE c.lowOdd))>>
            \o scroll_steps(c, i + 1)

\* No adjustment: random.random() <= 0.5 at line 158.
NoAdjustment == AdjustMax + 1

\* random_scroll_with_inertia when the driver raises at no call: the
\* steps, the adjustment if one is drawn, the delay of line 162.
scroll_events(c) ==
    scroll_steps(c, 0)
        \o (IF c.adjustment # NoAdjustment
            THEN <<ScrollEvent("adjust", c.adjustment)>> ELSE <<>>)
        \o <<ScrollEvent("delay", 0)>>

ScrollAt(scroll_distance, direction, steps, adjustment, lowEven, lowOdd,
         driverOk) ==
    [called |-> FALSE, scroll_distance |-> scroll_distance,
     direction |-> direction, steps |-> steps, adjustment |-> adjustment,
     lowEven |-> lowEven, lowOdd |-> lowOdd, driverOk |-> driverOk,
     events |-> <<>>]

\* random_scroll_with_inertia(page).  When the first page.evaluate raises,
\* the handler of line 164 ends the call with nothing scrolled and no delay.
call_random_scroll_with_inertia ==
    /\ ~fn.called
    /\ fn' = [fn EXCEPT !.called = TRUE,
                        !.events = IF fn.driverOk THEN scroll_events(fn)
                                   ELSE <<>>]
    /\ UNCHANGED <<pipeVars, resolverVars, det, tm, bz, storeVars, hv, intr,
                   motionVars, pr, mt, loc>>

\* parser.parse_prices(html) on a page holding pr.cards.
call_parse_prices ==
    /\ ~pr.called
    /\ pr' = [pr EXCEPT !.called = TRUE, !.offers = parse_prices(pr.cards)]
    /\ UNCHANGED <<pipeVars, resolverVars, det, tm, bz, storeVars, hv, intr,
                   motionVars, mt, loc, fn>>

\* ------------------------------------------------------------------------
\* Specifications
\* ------------------------------------------------------------------------
\* The scrape pipeline.
Init ==
    /\ PipelineInit
    /\ StoreIdle
    /\ hv = HomepageIdle
    /\ intr = NoInterrupt
    /\ MotionIdle
    /\ PureIdle
    /\ ResolverIdle
    /\ max_wait = 0
    /\ det = DetectorIdle
    /\ tm = TimingIdle
    /\ bz = BezierIdle

Next ==
    \/ scrape_begin
    \/ scrape_homepage
    \/ scrape_search
    \/ scrape_extract
    \/ scrape_screenshot
    \/ scrape_persist

Spec == Init /\ [][Next]_vars

\* One resolution attempt of either strategy, for every timeout.
InitResolver ==
    /\ PipelineInit
    /\ StoreIdle
    /\ hv = HomepageIdle
    /\ intr = NoInterrupt
    /\ MotionIdle
    /\ PureIdle
    /\ debug = FALSE
    /\ ResolverIdle
    /\ max_wait \in (0 - 1)..MaxWait
    /\ det = DetectorIdle
    /\ tm = TimingIdle
    /\ bz = BezierIdle

NextResolver ==
    \/ resolver_enter
    \/ resolver_head
    \/ resolver_actions
    \/ resolver_delay
    \/ resolver_poll

SpecResolver == InitResolver /\ [][NextResolver]_vars

\* The loop is sequential code: a step that can be taken is taken.
SpecResolverFair == SpecResolver /\ WF_vars(NextResolver)

\* Calls of the detector of either strategy on every page.
InitDetector ==
    /\ PipelineInit
    /\ StoreIdle
    /\ hv = HomepageIdle
    /\ intr = NoInterrupt
    /\ MotionIdle
    /\ PureIdle
    /\ debug = FALSE
    /\ ResolverIdle
    /\ max_wait = 0
    /\ det \in {DetectorAt(p) : p \in Pages}
    /\ tm = TimingIdle
    /\ bz = BezierIdle

NextDetector == detect

SpecDetector == InitDetector /\ [][NextDetector]_vars

\* Calls of the two delay functions on every pair of bounds.
InitTiming ==
    /\ PipelineInit
    /\ StoreIdle
    /\ hv = HomepageIdle
    /\ intr = NoInterrupt
    /\ MotionIdle
    /\ PureIdle
    /\ debug = FALSE
    /\ use_advanced = TRUE
    /\ ResolverIdle
    /\ max_wait = 0
    /\ det = DetectorIdle
    /\ tm \in {TimingAt("uniform", lo, hi, u) :
                    lo \in TimeBounds, hi \in TimeBounds, u \in Fractions}
              \cup {TimingAt("gaussian", lo, hi, z) :
                    lo \in TimeBounds, hi \in TimeBounds, z \in Sigmas}
    /\ bz = BezierIdle

NextTiming ==
    \/ sleep_uniform
    \/ sleep_gaussian

SpecTiming == InitTiming /\ [][NextTiming]_vars

\* Calls of bezier_curve.
InitBezier ==
    /\ PipelineInit
    /\ StoreIdle
    /\ hv = HomepageIdle
    /\ intr = NoInterrupt
    /\ MotionIdle
    /\ PureIdle
    /\ debug = FALSE
    /\ use_advanced = TRUE
    /\ ResolverIdle
    /\ max_wait = 0
    /\ det = DetectorIdle
    /\ tm = TimingIdle
    /\ bz \in {BezierAt(start, end, controls, steps) :
                    start \in Starts, end \in Ends,
                    controls \in SeqsUpTo(Points, 3) \ {<<>>},
                    steps \in StepsMin..StepsMax}
    /\ \A k \in 1..Len(bz.controls) :
            bz.controls[k] \in ControlPoints(bz.start, bz.end)

NextBezier == generate_curve

SpecBezier == InitBezier /\ [][NextBezier]_vars

\* Calls of save_cookies and load_cookies by one job, one after the other,
\* over every session name.
InitStore ==
    /\ PipelineInit
    /\ StoreIdle
    /\ hv = HomepageIdle
    /\ intr = NoInterrupt
    /\ MotionIdle
    /\ PureIdle
    /\ use_advanced = TRUE
    /\ debug = FALSE
    /\ ResolverIdle
    /\ max_wait = 0
    /\ det = DetectorIdle
    /\ tm = TimingIdle
    /\ bz = BezierIdle

NextStore ==
    \/ store_save
    \/ store_load

SpecStore == InitStore /\ [][NextStore]_vars

\* Two jobs saving and loading the session "default" at the same time.
InitShared ==
    /\ PipelineInit
    /\ files = [p \in CookiePaths |-> Absent]
    /\ saved = [n \in SessionNames |-> NeverSaved]
    /\ last = NoCall
    /\ procs = [j \in Jobs |-> IdleProc]
    /\ written = {}
    /\ hv = HomepageIdle
    /\ intr = NoInterrupt
    /\ MotionIdle
    /\ PureIdle
    /\ use_advanced = TRUE
    /\ debug = FALSE
    /\ ResolverIdle
    /\ max_wait = 0
    /\ det = DetectorIdle
    /\ tm = TimingIdle
    /\ bz = BezierIdle

NextShared ==
    \/ \E j \in Jobs : shared_save_begin(j)
    \/ \E j \in Jobs : shared_open(j)
    \/ \E j \in Jobs : shared_write(j)
    \/ \E j \in Jobs : shared_load_begin(j)
    \/ \E j \in Jobs : shared_read(j)

SpecShared == InitShared /\ [][NextShared]_vars

\* Calls of navigate_to_homepage of either strategy, for every session file,
\* every fault of the store and every behaviour of the driver.
InitHomepage ==
    /\ PipelineInit
    /\ StoreIdle
    /\ hv \in {HomepageAt(file, loadFault, saveFault, cookies, b) :
                    file \in StoredFiles, loadFault \in LoadFaults,
                    saveFault \in SaveFaults,
                    cookies \in {c \in CookieLists : Len(c) = MaxCookies},
                    b \in PageDriver}
    /\ intr = NoInterrupt
    /\ MotionIdle
    /\ PureIdle
    /\ debug = FALSE
    /\ ResolverIdle
    /\ max_wait = 0
    /\ det = DetectorIdle
    /\ tm = TimingIdle
    /\ bz = BezierIdle

NextHomepage == visit_homepage

SpecHomepage == InitHomepage /\ [][NextHomepage]_vars

\* One resolution attempt during which an interrupt may arrive.
InitCancel == InitResolver

NextCancel ==
    \/ resolver_enter
    \/ resolver_head
    \/ resolver_actions
    \/ resolver_delay
    \/ resolver_poll
    \/ resolver_interrupt

SpecCancel == InitCancel /\ [][NextCancel]_vars

\* Pointer movements of one strategy object, one after the other.
InitMotion == InitStore

NextMotion ==
    \/ motion_begin
    \/ motion_step
    \/ motion_end

SpecMotion == InitMotion /\ [][NextMotion]_vars

\* Movements of the pointer over the pages of MaxJobs jobs of one scraper.
NextPointer ==
    \/ motion_begin
    \/ motion_step
    \/ motion_end
    \/ motion_new_page

SpecPointer == InitMotion /\ [][NextPointer]_vars

\* One call of parse_prices, for every page of up to MaxParse cards.
InitParser ==
    /\ ProgramIdle
    /\ pr \in {[called |-> FALSE, cards |-> c, offers |-> <<>>] :
                    c \in SeqsUpTo(ParserCards, MaxParse)}
    /\ mt = MatcherIdle
    /\ loc = LocationIdle
    /\ fn = FnIdle

NextParser == call_parse_prices

SpecParser == InitParser /\ [][NextParser]_vars

\* One call of match_intent_to_bookings, for every intent and every list of
\* bookings of the model.
InitMatcher ==
    /\ ProgramIdle
    /\ pr = ParserIdle
    /\ mt \in {MatcherAt(intent, bookings) :
                    intent \in Intents, bookings \in BookingLists}
    /\ loc = LocationIdle
    /\ fn = FnIdle

NextMatcher == call_match_intent_to_bookings

SpecMatcher == InitMatcher /\ [][NextMatcher]_vars

\* One call of disambiguate_location, for every city name of the model.
InitLocation ==
    /\ ProgramIdle
    /\ pr = ParserIdle
    /\ mt = MatcherIdle
    /\ loc \in {LocationAt(city_name) : city_name \in CityNames}
    /\ fn = FnIdle

NextLocation == call_disambiguate_location

SpecLocation == InitLocation /\ [][NextLocation]_vars

\* One attempt of the advanced strategy that is long enough for twenty
\* iterations.
ScheduleWait == 40

InitSchedule ==
    /\ PipelineInit
    /\ StoreIdle
    /\ hv = HomepageIdle
    /\ intr = NoInterrupt
    /\ MotionIdle
    /\ PureIdle
    /\ use_advanced = TRUE
    /\ debug = FALSE
    /\ ResolverIdle
    /\ max_wait = ScheduleWait
    /\ det = DetectorIdle
    /\ tm = TimingIdle
    /\ bz = BezierIdle

NextSchedule ==
    \/ resolver_enter
    \/ resolver_head
    \/ resolver_actions
    \/ resolver_delay
    \/ resolver_poll

SpecSchedule == InitSchedule /\ [][NextSchedule]_vars

\* The delay of every point of every path bezier_curve can return.
InitPace ==
    /\ ProgramIdle
    /\ pr = ParserIdle
    /\ mt = MatcherIdle
    /\ loc = LocationIdle
    /\ fn \in {PaceAt(steps, i) : steps \in StepsMin..StepsMax,
                                   i \in 0..StepsMax}
    /\ fn.i <= fn.steps

NextPace == choose_step_delay

SpecPace == InitPace /\ [][NextPace]_vars

\* One homepage wait of either strategy in which the detector is called on
\* any page, by the wait or by the first poll of the resolver.
InitClear ==
    /\ ProgramIdle
    /\ pr = ParserIdle
    /\ mt = MatcherIdle
    /\ loc = LocationIdle
    /\ fn \in {PollAt(adv, mode, page, later) :
                    adv \in BOOLEAN, mode \in {"load", "poll"},
                    page \in Pages, later \in BOOLEAN}

NextClear == call_detector_in_wait

SpecClear == InitClear /\ [][NextClear]_vars

\* One call of is_time_in_preference, for every preference with a window
\* and every hour of the day.
InitTimePreference ==
    /\ ProgramIdle
    /\ pr = ParserIdle
    /\ mt = MatcherIdle
    /\ loc = LocationIdle
    /\ fn \in {TimeAt(hour, p) : hour \in HoursOfDay, p \in WindowPreferences}

NextTimePreference == call_is_time_in_preference

SpecTimePreference == InitTimePreference /\ [][NextTimePreference]_vars

\* One call of _find_train_cards, for every page of up to MaxElements
\* elements.
InitFind ==
    /\ ProgramIdle
    /\ pr = ParserIdle
    /\ mt = MatcherIdle
    /\ loc = LocationIdle
    /\ fn \in {FindAt(page) : page \in SeqsUpTo(Elements, MaxElements)}

NextFind == call_find_train_cards

SpecFind == InitFind /\ [][NextFind]_vars

\* One homepage visit or one search under either strategy, over everything
\* the driver can do in it.
InitPageLoad ==
    /\ ProgramIdle
    /\ pr = ParserIdle
    /\ mt = MatcherIdle
    /\ loc = LocationIdle
    /\ fn \in {PageLoadAt(adv, "homepage", d) :
                    adv \in BOOLEAN, d \in HomeDriver}
              \cup {PageLoadAt(adv, "search", d) :
                    adv \in BOOLEAN, d \in SearchDriver}

NextPageLoad == call_wait_for_page_load

SpecPageLoad == InitPageLoad /\ [][NextPageLoad]_vars

\* One call of random_scroll_with_inertia, for every distance, direction
\* and step count it can draw, with and without an adjustment.
InitScroll ==
    /\ ProgramIdle
    /\ pr = ParserIdle
    /\ mt = MatcherIdle
    /\ loc = LocationIdle
    /\ fn \in {ScrollAt(d, dir, n, a, le, lo, ok) :
                  d \in ScrollMin..ScrollMax, dir \in {1, 0 - 1},
                  n \in ScrollStepsMin..ScrollStepsMax,
                  a \in {0 - AdjustMax, 0, AdjustMax, NoAdjustment},
                  le \in BOOLEAN, lo \in BOOLEAN, ok \in BOOLEAN}

NextScroll == call_random_scroll_with_inertia

SpecScroll == InitScroll /\ [][NextScroll]_vars

\* ------------------------------------------------------------------------
\* Properties of the scrape pipeline (Spec)
\* ------------------------------------------------------------------------
StageOrder == <<"navigate_to_homepage", "search_route", "extract_prices",
                "save_results">>

\* C1: in every run of scrape() the stages are invoked in the order
\* homepage, search, extract, persist; a stage is invoked only after every
\* stage before it succeeded; and when navigate_to_homepage or search_route
\* returned False no later stage is invoked and scrape returns [].
C1_StageOrder ==
    /\ Len(calls) <= Len(StageOrder)
    /\ \A i \in 1..Len(calls) : calls[i].stage = StageOrder[i]
    /\ \A i \in 1..(Len(calls) - 1) : calls[i].ok
    /\ (calls # <<>> /\ ~calls[Len(calls)].ok) =>
            (pc = "FAILED" /\ returned = <<>>)
    /\ pc = "FAILED" => returned = <<>>

\* The homepage stage failed: it is the only stage invoked and the job is
\* FAILED with an empty list returned.
C1_Witness ==
    /\ pc = "FAILED"
    /\ calls = <<Call("navigate_to_homepage", FALSE)>>
    /\ returned = <<>>

\* Three priced cards and one unpriced card.
ThreePricedOneUnpriced(m) ==
    /\ Len(m) = 4
    /\ Cardinality({i \in 1..4 : extract_price(m[i]) > 0}) = 3
    /\ Cardinality({i \in 1..4 : extract_price(m[i]) = NoPrice}) = 1

\* The current job has ended (scrape returned).
JobEnded == jobs >= 1 /\ pc \in {"DONE", "FAILED"}

\* C2: with the advanced strategy, a job whose every driver call succeeds,
\* whose pages never trigger the detector and whose markup holds three
\* priced cards and one unpriced card ends DONE with 3 offers returned and
\* an artifact with total_results = 3 and a scrape_time.
C2_EndToEnd ==
    (JobEnded /\ use_advanced /\ stubOk /\ ~detFired
        /\ ThreePricedOneUnpriced(markup))
    => /\ pc = "DONE"
       /\ Len(returned) = 3
       /\ artifact.state = "complete"
       /\ artifact.total_results = 3
       /\ artifact.scrape_time # 0

\* C3: with the baseline strategy, a job whose every driver call succeeds
\* (inputs, autocomplete options and search button found) and whose pages
\* never trigger the detector reaches DONE.
C3_BaselineReachesDone ==
    (JobEnded /\ ~use_advanced /\ stubOk /\ ~detFired) => pc = "DONE"

\* ------------------------------------------------------------------------
\* Properties of the challenge resolver (SpecResolver, SpecResolverFair)
\* ------------------------------------------------------------------------
\* The verdict of the latest poll; TRUE (challenged) before the first poll.
LastVerdict == IF verdicts = <<>> THEN TRUE ELSE verdicts[Len(verdicts)]

\* Every poll of the attempt so far reported a challenge.
AllChallenged == \A i \in 1..Len(verdicts) : verdicts[i]

Elapsed == now - start_time

\* C4: when the detector reports a challenge on polls 1..N-1 and clear on
\* poll N, the resolver returns True at the end of iteration N, having
\* polled exactly N times (one poll per iteration started), and neither
\* acts nor polls after that: the clear poll is the last entry of the
\* iteration and of the attempt.
C4_ResolvesAtN ==
    /\ \A i \in 1..(Len(verdicts) - 1) : verdicts[i]
    /\ Len(verdicts) = IF rpc \in {"body", "delay", "poll"}
                       THEN check_interval - 1 ELSE check_interval
    /\ ~LastVerdict =>
            /\ rpc = "returned"
            /\ ret = TRUE
            /\ Len(verdicts) = check_interval
            /\ acts # <<>> /\ acts[Len(acts)] = "poll"

\* The detector cleared on the third poll and the resolver returned True.
C4_Witness ==
    /\ rpc = "returned"
    /\ ret = TRUE
    /\ verdicts = <<TRUE, TRUE, FALSE>>
    /\ check_interval = 3

\* C5: when the detector reports a challenge on every poll, the resolver
\* terminates, returns False, and returns only once the elapsed time is at
\* least max_wait.
C5_TimesOut ==
    /\ []((rpc = "returned" /\ AllChallenged) =>
            (ret = FALSE /\ Elapsed >= max_wait * TicksPerSecond))
    /\ <>(rpc = "returned")

\* The resolver timed out after several polls that all reported a challenge.
C5_Witness ==
    /\ rpc = "returned"
    /\ ret = FALSE
    /\ AllChallenged
    /\ Len(verdicts) >= 3
    /\ Elapsed >= max_wait * TicksPerSecond

\* C6: the resolver returns True only when the detector poll made
\* immediately before the return reported no challenge; a return on
\* timeout (no poll, or a last poll that reported a challenge) is False.
C6_TrueOnlyFromResolved ==
    rpc = "returned" =>
        /\ ret = TRUE <=> (verdicts # <<>> /\ ~LastVerdict)
        /\ ret = TRUE => (acts # <<>> /\ acts[Len(acts)] = "poll")
        /\ ret = FALSE => ~loop_continues(now, start_time, max_wait)

\* A timeout after a poll that reported a challenge: False is returned.
C6_Witness ==
    /\ rpc = "returned"
    /\ ret = FALSE
    /\ verdicts # <<>>
    /\ LastVerdict

\* C39: the resolver tests the deadline at the head of an iteration and
\* nowhere else: an iteration starts only while the elapsed time is below
\* max_wait; once started it goes through its actions and delay to its
\* poll whatever the clock says; False is returned from the head only, and
\* True from a poll, also one made after the deadline; with max_wait <= 0
\* the resolver returns False without an action or a poll.
C39_DeadlineAtHead ==
    /\ [][(rpc = "head" /\ rpc' = "body") =>
            now - start_time < max_wait * TicksPerSecond]_vars
    /\ [][(rpc = "head" /\ now - start_time >= max_wait * TicksPerSecond) =>
            (rpc' = "returned" /\ ret' = FALSE)]_vars
    /\ [][(rpc = "body" => rpc' = "delay")
            /\ (rpc = "delay" => rpc' = "poll")
            /\ (rpc = "poll" => rpc' \in {"head", "returned"})]_vars
    /\ [][(rpc # "returned" /\ rpc' = "returned") =>
            IF ret' THEN rpc = "poll" ELSE rpc = "head"]_vars
    /\ [](rpc = "body" => <>(rpc = "poll"))
    /\ []((rpc = "returned" /\ max_wait <= 0) =>
            (ret = FALSE /\ acts = <<>> /\ verdicts = <<>>
                /\ check_interval = 0))

\* The last iteration started before the deadline, its poll came after it
\* and found the page clear: True is returned late.
C39_Witness ==
    /\ rpc = "returned"
    /\ ret = TRUE
    /\ max_wait > 0
    /\ check_interval >= 2
    /\ now - start_time > max_wait * TicksPerSecond

\* ------------------------------------------------------------------------
\* Properties of the challenge detector (SpecDetector)
\* ------------------------------------------------------------------------
\* The four signal checks all returned (none raised to the detector).
AllChecksReturned ==
    \A i \in 1..4 : det.methods[i] \in {"true", "false"}

\* C7: the advanced detector is the OR of its four signal checks: when the
\* four checks return, the verdict is True exactly when at least one of the
\* URL, DOM, network and script/cookie checks returned True.
C7_PureOr ==
    (det.called /\ use_advanced /\ AllChecksReturned) =>
        (det.verdict <=>
            \/ check_url_indicators(det.page) = "true"
            \/ check_dom_indicators(det.page) = "true"
            \/ check_network_indicators(det.page) = "true"
            \/ check_javascript_indicators(det.page) = "true")

\* The script/cookie signal fires alone and the verdict is True.
C7_Witness ==
    /\ det.called
    /\ use_advanced
    /\ det.methods = <<"false", "false", "false", "true">>
    /\ det.verdict = TRUE

\* C8: an exception raised while probing one signal counts as that signal
\* not firing and nothing more: when reading the page URL raises and the
\* DOM signal fires, the verdict of the advanced detector is True.
C8_RaiseIsOnlyNoSignal ==
    (det.called /\ use_advanced /\ det.page.url = "raise"
        /\ check_dom_indicators(det.page) = "true")
    => det.verdict = TRUE

\* C36: for both strategies, a page whose text holds the challenge phrase
\* 'checking your browser' in any letter case, and on which no driver call
\* raises, makes the detector return True.
C36_PhraseAnyCase ==
    (det.called
        /\ det.page.body # "raise"
        /\ lower(det.page.body) = "checking your browser"
        /\ det.page.url # "raise"
        /\ det.page.element # "raise"
        /\ det.page.js # "raise"
        /\ det.page.script # "raise")
    => det.verdict = TRUE

\* ------------------------------------------------------------------------
\* Properties of the timing model (SpecTiming)
\* ------------------------------------------------------------------------
\* C9: for bounds min <= max, the time for which random_delay (uniform
\* policy) and gaussian_delay (Gaussian policy) block the caller lies in
\* [min, max] inclusive.
C9_DelayWithinBounds ==
    (tm.called /\ tm.min <= tm.max) =>
        (tm.min <= tm.slept /\ tm.slept <= tm.max)

\* A Gaussian draw beyond three standard deviations is clamped to max.
C9_Witness ==
    /\ tm.called
    /\ tm.policy = "gaussian"
    /\ tm.min < tm.max
    /\ gauss_sample(tm.min, tm.max, tm.draw) > tm.max
    /\ tm.slept = tm.max

\* ------------------------------------------------------------------------
\* Properties of the motion generator (SpecBezier)
\* ------------------------------------------------------------------------
\* C10: for every start and end point and 1..3 control points,
\* bezier_curve returns steps+1 points for a step count in [20, 40]
\* (between 21 and 41 points); the first point is start and the last point
\* is end, exactly.
C10_CurveEndpoints ==
    bz.called =>
        /\ Len(bz.controls) \in 1..3
        /\ bz.steps \in 20..40
        /\ Len(bz.curve) = bz.steps + 1
        /\ 21 <= Len(bz.curve) /\ Len(bz.curve) <= 41
        /\ bz.curve[1] = bz.start
        /\ bz.curve[Len(bz.curve)] = bz.end

\* A curve with three control points and negative coordinates whose
\* interior samples were truncated toward zero.
C10_Witness ==
    /\ bz.called
    /\ Len(bz.controls) = 3
    /\ bz.start # bz.end
    /\ bz.start[1] < 0
    /\ bz.steps = 40
    /\ \E n \in 2..bz.steps : bz.curve[n] \notin {bz.start, bz.end}

\* C17: no exception crosses the external interface.  Whatever the browser
\* initialisation, a driver call of any stage, the parser or the
\* persistence raises, scrape() ends by returning a list, the empty one when
\* the job failed; it never ends by raising.
C17_NoExceptionEscapes ==
    /\ pc # "RAISED"
    /\ pc = "FAILED" => returned = <<>>
    /\ pc = "DONE" => returned = results

\* The browser could not be started: no stage ran and scrape() returned [].
C17_Witness ==
    /\ pc = "FAILED"
    /\ jobs = 1
    /\ calls = <<>>
    /\ ~stubOk
    /\ returned = <<>>

\* C18: only a detection timeout or a navigation or selector failure makes
\* a job fail.  Once navigate_to_homepage and search_route have succeeded, a
\* failure of the extraction, of the debug screenshot or of the write of the
\* artifact does not make the job FAILED, and scrape() returns the offers
\* that were extracted.
C18_OnlyStageFailuresFail ==
    (Len(calls) >= 2 /\ calls[2].ok) =>
        /\ pc # "FAILED"
        /\ pc = "DONE" => returned = results

\* C19: the artifact is written at most once per job, by the persist step
\* that follows extract_prices, and never by a job whose homepage or search
\* stage failed; the record a job wrote has total_results equal to the
\* number of its results and holds the list scrape() returned, nothing of
\* the artifact it replaced.
C19_ArtifactOncePerJob ==
    /\ []((pc = "DONE" /\ artifact.state = "complete"
                /\ artifact.scrape_time = jobs) =>
            /\ artifact.total_results = Len(artifact.results)
            /\ artifact.results = returned)
    /\ [][artifact' # artifact =>
            /\ pc = "persist"
            /\ pc' = "DONE"
            /\ Len(calls) = 3
            /\ calls[1].ok /\ calls[2].ok
            /\ calls[3].stage = "extract_prices"]_vars

\* The second job of a scraper wrote its one offer over the artifact of the
\* first.
C19_Witness ==
    /\ pc = "DONE"
    /\ jobs = 2
    /\ artifact.state = "complete"
    /\ artifact.scrape_time = 2
    /\ artifact.total_results = 1
    /\ Len(returned) = 1

\* C20: no job state is reused.  When a scrape() has ended, the results the
\* scraper holds are the list that call returned, and none at all when it
\* ended FAILED.
C20_NoStateReuse ==
    pc \in {"DONE", "FAILED"} =>
        /\ results = returned
        /\ pc = "FAILED" => results = <<>>

\* C21: soft interaction failure.  A driver error in a mouse movement, a
\* scroll or a hover is caught inside that action: every action of the
\* iteration is still invoked, the iteration goes on to its delay and its
\* poll, and the attempt ends as it would without the error, with False
\* only when the time is up.
C21_SoftInteractionFailure ==
    /\ rpc \in {"delay", "poll"} =>
            \A i \in 1..Len(iteration_actions(use_advanced, check_interval)) :
                acts[i] = iteration_actions(use_advanced, check_interval)[i]
    /\ (rpc = "returned" /\ ~ret) =>
            ~loop_continues(now, start_time, max_wait)
    /\ (rpc = "returned" /\ ret) =>
            (verdicts # <<>> /\ challenge_resolved(verdicts[Len(verdicts)]))

\* An attempt resolved the challenge in an iteration in which two actions
\* stopped on a driver error.
C21_Witness ==
    /\ rpc = "returned"
    /\ ret
    /\ Cardinality(soft) >= 2
    /\ acts[Len(acts)] = "poll"

\* C24: every iteration of the resolver makes one delay of 2 to 4 s, after
\* its actions (also when it has none) and before its detector poll; two
\* polls of one attempt that follow each other are at least 2 s apart.
C24_LoopCadence ==
    /\ [](rpc = "poll" =>
            /\ acts = Append(iteration_actions(use_advanced, check_interval),
                             "delay"))
    /\ [][rpc = "delay" =>
            /\ rpc' = "poll"
            /\ now' - now >= LoopDelayMin * TicksPerSecond
            /\ now' - now <= LoopDelayMax * TicksPerSecond]_vars
    /\ [][(rpc = "poll" /\ last_poll # NoPoll) =>
            now - last_poll >= LoopDelayMin * TicksPerSecond]_vars

\* The second poll of an advanced attempt, in an iteration without actions,
\* comes exactly 2 s after the first.
C24_Witness ==
    /\ use_advanced
    /\ rpc = "poll"
    /\ check_interval = 2
    /\ acts = <<"delay">>
    /\ last_poll # NoPoll
    /\ now - last_poll = LoopDelayMin * TicksPerSecond

\* ------------------------------------------------------------------------
\* Properties of the parser (SpecParser)
\* ------------------------------------------------------------------------
\* C25: every offer parse_prices returns has a price, and every card from
\* which a price can be extracted yields an offer, whatever the price; only
\* the cards without an extractable price are dropped.
C25_OfferPrice ==
    pr.called =>
        /\ \A i \in 1..Len(pr.offers) : pr.offers[i].price # NoPrice
        /\ Len(pr.offers) =
               Cardinality({i \in 1..Len(pr.cards) :
                               extract_price(pr.cards[i]) # NoPrice})

\* ------------------------------------------------------------------------
\* Properties of the matcher (SpecMatcher)
\* ------------------------------------------------------------------------
MatchedHours ==
    {mt.bookings[mt.result.matched_bookings[k]].hour :
        k \in 1..Len(mt.result.matched_bookings)}

\* C26: with the preference "morning" every matched booking departs at an
\* hour below 12, with "afternoon" at an hour from 12 to 17; a booking that
\* departs outside the range is never matched.
C26_TimeRangeFilter ==
    (mt.called /\ mt.outcome = "return") =>
        /\ mt.intent.time_preference = "morning" =>
                \A h \in MatchedHours : h < 12
        /\ mt.intent.time_preference = "afternoon" =>
                \A h \in MatchedHours : 12 <= h /\ h < 18

MatchedSet ==
    {mt.result.matched_bookings[k] : k \in 1..Len(mt.result.matched_bookings)}

\* C27, as stated: without a time preference every booking supplied is in
\* matched_bookings, and as many are matched as were supplied.
C27_AllSupplied ==
    (mt.called /\ mt.intent.time_preference = "") =>
        /\ MatchedSet = 1..Len(mt.bookings)
        /\ Len(mt.result.matched_bookings) = Len(mt.bookings)

\* C27, amended: without a time preference no booking is filtered out;
\* matched_bookings holds the bookings supplied when they are at most five,
\* and five of them, each once, when they are more; an available booking
\* is then left out only if the five returned are all available.
C27_NoPreferenceMatchesAll ==
    (mt.called /\ mt.intent.time_preference = "") =>
        /\ mt.outcome = "return"
        /\ MatchedSet \subseteq 1..Len(mt.bookings)
        /\ Cardinality(MatchedSet) = Len(mt.result.matched_bookings)
        /\ Len(mt.result.matched_bookings) = Min(Len(mt.bookings), TopMatches)
        /\ \A i \in (1..Len(mt.bookings)) \ MatchedSet :
                \A j \in MatchedSet :
                    mt.bookings[i].available => mt.bookings[j].available

\* Six bookings without a time preference: five are returned.
C27_Witness ==
    /\ mt.called
    /\ mt.intent.time_preference = ""
    /\ Len(mt.bookings) = TopMatches + 1
    /\ Len(mt.result.matched_bookings) = TopMatches
    /\ \E i \in 1..Len(mt.bookings) : ~mt.bookings[i].available

\* The bookings supplied that match the time preference and are available.
AvailableMatches ==
    {i \in 1..Len(mt.bookings) :
        /\ mt.bookings[i].available
        /\ is_time_in_preference(mt.bookings[i].hour,
                                 mt.intent.time_preference).matches}

\* C28: in every result, if some booking that matches the time preference
\* is available then recommended_booking is an available booking that
\* matches it; an unavailable booking is recommended only when no matching
\* booking is available.
C28_UnavailableLast ==
    (mt.called /\ mt.outcome = "return") =>
        /\ AvailableMatches # {} =>
                mt.result.recommended_booking \in AvailableMatches
        /\ (/\ mt.result.recommended_booking # NoBooking
            /\ ~mt.bookings[mt.result.recommended_booking].available) =>
                AvailableMatches = {}

\* An unavailable booking comes first in the list and an available one
\* second, both match the preference, and the second is recommended.
C28_Witness ==
    /\ mt.called
    /\ mt.outcome = "return"
    /\ mt.intent.time_preference = "morning"
    /\ Len(mt.bookings) = 2
    /\ ~mt.bookings[1].available
    /\ mt.bookings[1].hour = 9
    /\ mt.bookings[2].hour = 12
    /\ AvailableMatches = {2}
    /\ mt.result.recommended_booking = 2
    /\ mt.result.matched_bookings = <<2, 1>>

HighWarnings ==
    {w \in 1..Len(mt.result.warnings) :
        mt.result.warnings[w].severity = "high"}

\* C29: safe_to_book is true only in a result without a warning of high
\* severity, with a confidence of at least 0.7 and with a recommended
\* booking that is available; it is false in every other result, and in
\* every result for an intent without a destination.
C29_SafeToBook ==
    mt.called =>
        /\ mt.result.safe_to_book =>
                /\ mt.outcome = "return"
                /\ HighWarnings = {}
                /\ mt.result.confidence >= 70
                /\ mt.result.recommended_booking # NoBooking
                /\ mt.bookings[mt.result.recommended_booking].available
        /\ mt.intent.destination = "" => ~mt.result.safe_to_book

\* A result that is safe to book: one station at either end, a date to
\* come, a given hour and an available booking at that hour.
C29_Witness ==
    /\ mt.called
    /\ mt.outcome = "return"
    /\ mt.result.safe_to_book
    /\ mt.intent = UserIntent("Sevilla", "Granada", "tomorrow", "09:00")
    /\ mt.result.confidence = 100
    /\ mt.result.warnings = <<>>
    /\ mt.bookings[mt.result.recommended_booking].available

\* ------------------------------------------------------------------------
\* Properties of the location table (SpecLocation)
\* ------------------------------------------------------------------------
\* The name as the table is searched for it.
Searched == strip(str_lower(loc.city_name))

\* The name shares text with a key: it contains one or is part of one.
SharesTextWithKey ==
    \E k \in 1..Len(CityKeys) :
        \/ is_substring(CityKeys[k], Searched)
        \/ is_substring(Searched, CityKeys[k])

\* C30, as stated: every name that, trimmed and lower-cased, is not a key
\* of the station table gets a confidence below 0.5 and is flagged
\* ambiguous.
C30_UnknownCity ==
    (loc.called /\ ~is_city_key(Searched)) =>
        /\ loc.match.confidence < 50
        /\ loc.match.is_ambiguous

\* C30, amended: a name that is not a key and shares no text with a key
\* gets the confidence 0.3, is flagged ambiguous and is returned as the
\* station name, without code and without alternatives; a name that is not
\* a key but shares text with one is flagged ambiguous too, with the
\* confidence 0.7 and the primary station of the first such key.
C30_UnknownCityLowConfidence ==
    (loc.called /\ ~is_city_key(Searched)) =>
        /\ loc.match.is_ambiguous
        /\ ~SharesTextWithKey =>
                /\ loc.match.confidence = ConfidenceUnknown
                /\ loc.match.confidence < 50
                /\ loc.match.name = loc.city_name
                /\ loc.match.code = ""
                /\ loc.match.alternatives = <<>>
        /\ SharesTextWithKey =>
                /\ loc.match.confidence = ConfidenceFuzzy
                /\ loc.match.code # ""

\* "Atlantis", written with blanks around it, is looked up.
C30_Witness ==
    /\ loc.called
    /\ Searched = "atlantis"
    /\ loc.city_name # "Atlantis"
    /\ loc.match.confidence = ConfidenceUnknown
    /\ loc.match.is_ambiguous

\* ------------------------------------------------------------------------
\* Properties of the action schedule (SpecSchedule)
\* ------------------------------------------------------------------------
\* The places of an action in what the current iteration did so far.
PlacesOf(action) == {i \in 1..Len(acts) : acts[i] = action}

\* C31: in iteration k of the advanced resolver the motion runs exactly
\* when 3 divides k, the scroll exactly when 4 divides k, the hover exactly
\* when 5 divides k; each runs at most once, in the order motion, scroll,
\* hover, then the delay, then the poll; iterations 1 and 2 do nothing
\* before their delay and poll.
C31_ActionSchedule ==
    (use_advanced /\ rpc = "poll") =>
        /\ Cardinality(PlacesOf("motion")) =
               (IF check_interval % 3 = 0 THEN 1 ELSE 0)
        /\ Cardinality(PlacesOf("scroll")) =
               (IF check_interval % 4 = 0 THEN 1 ELSE 0)
        /\ Cardinality(PlacesOf("hover")) =
               (IF check_interval % 5 = 0 THEN 1 ELSE 0)
        /\ PlacesOf("delay") = {Len(acts)}
        /\ PlacesOf("poll") = {}
        /\ \A m \in PlacesOf("motion"), c \in PlacesOf("scroll") : m < c
        /\ \A m \in PlacesOf("motion"), h \in PlacesOf("hover") : m < h
        /\ \A c \in PlacesOf("scroll"), h \in PlacesOf("hover") : c < h
        /\ check_interval \in {1, 2} => acts = <<"delay">>

\* Iteration 20 is about to poll after its scroll, its hover and its delay.
C31_Witness ==
    /\ use_advanced
    /\ rpc = "poll"
    /\ check_interval = 20
    /\ acts = <<"scroll", "hover", "delay">>

\* ------------------------------------------------------------------------
\* Properties of the pace of a path (SpecPace)
\* ------------------------------------------------------------------------
\* C32: the delay before the point of curve parameter t = i / steps is
\* drawn from the slower range when t < 0.2 or t > 0.8, and from the faster
\* range when t is in the middle 60% of the path.
C32_SpeedProfile ==
    fn.called =>
        (fn.range = "slow") <=>
            (5 * fn.i < fn.steps \/ 5 * fn.i > 4 * fn.steps)

\* ------------------------------------------------------------------------
\* Properties of the inertial scroll (SpecScroll)
\* ------------------------------------------------------------------------
EventsOf(what) == {k \in 1..Len(fn.events) : fn.events[k].what = what}

Magnitude(n) == IF n < 0 THEN 0 - n ELSE n

\* C33: a call of random_scroll_with_inertia in which the driver does not
\* fail emits one scroll delta per step, all of one direction and each
\* strictly smaller in magnitude than the one before, then at most one
\* adjustment, then exactly one timing-model delay.
C33_InertialScroll ==
    (fn.called /\ fn.driverOk) =>
        /\ EventsOf("scroll") = 1..fn.steps
        /\ \A k \in 1..fn.steps : fn.events[k].delta * fn.direction > 0
        /\ \A k \in 2..fn.steps :
                Magnitude(fn.events[k].delta)
                    < Magnitude(fn.events[k - 1].delta)
        /\ Cardinality(EventsOf("adjust")) <= 1
        /\ EventsOf("adjust") \subseteq {fn.steps + 1}
        /\ EventsOf("delay") = {Len(fn.events)}
        /\ Len(fn.events) = fn.steps + Cardinality(EventsOf("adjust")) + 1

\* The shortest distance in the most steps, scrolling up, with an
\* adjustment: the last delta is the smallest the function can emit.
C33_Witness ==
    /\ fn.called
    /\ fn.driverOk
    /\ fn.scroll_distance = ScrollMin
    /\ fn.steps = ScrollStepsMax
    /\ fn.direction = 0 - 1
    /\ fn.lowEven
    /\ Len(fn.events) = ScrollStepsMax + 2
    /\ fn.events[ScrollStepsMax].delta = 0 - 2
    /\ fn.events[ScrollStepsMax + 1].what = "adjust"

\* ------------------------------------------------------------------------
\* Properties of wait_for_page_load (SpecPageLoad)
\* ------------------------------------------------------------------------
WaitCalled(name) ==
    \E k \in 1..Len(fn.waitCalls) : fn.waitCalls[k] = name

Matching == {k \in Selectors : \E i \in 1..Len(fn.page) : k \in fn.page[i].matches}

ElementsOf(cards) == {cards[i] : i \in 1..Len(cards)}

\* C35: the cards _find_train_cards returns are exactly the elements
\* matched by the first selector of the list that matches any element, and
\* no later selector is tried; the price heuristic runs only when no
\* selector matches, and then its elements are the cards.
C35_SelectorChain ==
    fn.called =>
        /\ Matching # {} =>
              LET first == CHOOSE k \in Matching : \A j \in Matching : k <= j
              IN  /\ ElementsOf(fn.found.cards)
                        = {i \in 1..Len(fn.page) : first \in fn.page[i].matches}
                  /\ fn.found.consulted = 1..first
                  /\ ~fn.found.heuristic
        /\ Matching = {} =>
              /\ fn.found.heuristic
              /\ ElementsOf(fn.found.cards)
                    = {i \in 1..Len(fn.page) : fn.page[i].priced}
        /\ \A i, j \in 1..Len(fn.found.cards) :
              i < j => fn.found.cards[i] < fn.found.cards[j]

\* A page whose first element matches only a later selector than its
\* second, priced, element: the second element alone is returned.
C35_Witness ==
    /\ fn.called
    /\ Len(fn.page) = 2
    /\ fn.page[1].matches = {7}
    /\ fn.page[2].matches = {2}
    /\ fn.page[1].priced
    /\ fn.found.cards = <<2>>
    /\ fn.found.consulted = {1, 2}

\* ------------------------------------------------------------------------
\* Properties of a detector call inside the wait (SpecClear)
\* ------------------------------------------------------------------------
\* C37: a detector call in which every probe raises gives the verdict
\* 'clear': the resolver returns True on the poll that made it,
\* wait_for_page_load returns True and scrape() goes on to the search.
C37_RaisingPollIsClear ==
    (fn.called /\ fn.page = RaisingPage) =>
        /\ fn.verdict = FALSE
        /\ fn.mode = "poll" => fn.resolver = "true"
        /\ fn.mode = "load" => fn.resolver = "none"
        /\ fn.result = TRUE
        /\ fn.next = "search"

\* The first poll of the advanced resolver raises in every probe while
\* later polls would have found the challenge still there.
C37_Witness ==
    /\ fn.called
    /\ fn.adv
    /\ fn.mode = "poll"
    /\ fn.page = RaisingPage
    /\ ~fn.later
    /\ fn.resolver = "true"
    /\ fn.next = "search"

\* ------------------------------------------------------------------------
\* Properties of the pointer over several pages (SpecPointer)
\* ------------------------------------------------------------------------
\* C38: between movement calls, mouse_position is the point last sent to
\* page.mouse.move on the current page, or (0, 0) when none was sent on
\* it, also after a path the driver cut short and on the page of a later
\* job.
C38_PointerTracksDriver ==
    mv.pc \in {"idle", "done", "failed"} =>
        mouse_position = (IF mv.pointer = NoPointer THEN <<0, 0>>
                                                    ELSE mv.pointer)

\* ------------------------------------------------------------------------
\* Properties of the time preference (SpecTimePreference)
\* ------------------------------------------------------------------------
\* C40: for every preference parse_time_preference turns into an hour
\* window and every departure hour 0..23, is_time_in_preference returns
\* without raising, and the confidence of a match lies in [0.7, 1.0]
\* (700..1000 thousandths).
C40_TimeConfidence ==
    (fn.called /\ fn.range # NoRange) =>
        /\ fn.result.outcome = "return"
        /\ fn.result.matches =>
              (700 <= fn.result.confidence /\ fn.result.confidence <= 1000)

\* ------------------------------------------------------------------------
\* Properties of the session store (SpecStore)
\* ------------------------------------------------------------------------
\* C11: last write wins.  After any sequence of save_cookies and
\* load_cookies calls over any session names, the record of a name n whose
\* latest save_cookies ran to its end denotes the cookie list given to that
\* save, whatever was saved under other names since; and a load_cookies(n)
\* that then reads it returns True and hands the driver that list.
C11_LastWriteWins ==
    /\ \A n \in SessionNames :
            saved[n].state = "completed" =>
                /\ files[cookie_file(n)].exists
                /\ loads(files[cookie_file(n)].content) = saved[n].cookies
    /\ (/\ last.op = "load"
        /\ last.fault = "none"
        /\ saved[last.name].state = "completed") =>
            /\ last.outcome = "true"
            /\ last.handed
            /\ last.cookies = saved[last.name].cookies

\* A load of "default" returns the two cookies of its latest save although
\* another list was saved under "other".
C11_Witness ==
    /\ last.op = "load"
    /\ last.name = "default"
    /\ last.outcome = "true"
    /\ last.cookies = <<"datadome", "session">>
    /\ saved["other"].state = "completed"
    /\ saved["other"].cookies = <<"session">>

\* C15: session writes are atomic.  A save_cookies that fails or is
\* interrupted part-way leaves the record of its session name either as it
\* was before the call or replaced by the whole new cookie list, and no
\* record is ever empty, truncated or partial.
C15_AtomicWrites ==
    /\ last.op = "save" =>
            files[cookie_file(last.name)]
                \in {last.before, FileOf(dumps(last.cookies))}
    /\ \A p \in CookiePaths :
            files[p].exists => loads(files[p].content) # DecodeError

\* ------------------------------------------------------------------------
\* Properties of two jobs on one session directory (SpecShared)
\* ------------------------------------------------------------------------
\* C16: under every interleaving of the save_cookies and load_cookies steps
\* of two jobs with the same session name, a load_cookies that has returned
\* either found no file or read the whole record of some save_cookies: it
\* returned True with a cookie list that a save wrote to its end, and never
\* read an empty, partial or mixed file.
C16_ConcurrentLoads ==
    \A j \in Jobs :
        (procs[j].op = "load" /\ procs[j].pc = "idle") =>
            \/ ~procs[j].observed.exists /\ procs[j].outcome = "false"
            \/ /\ procs[j].outcome = "true"
               /\ procs[j].cookies \in written

\* ------------------------------------------------------------------------
\* Properties of the homepage visit (SpecHomepage)
\* ------------------------------------------------------------------------
\* C12: the session store is best-effort.  load_cookies for a name without
\* a file returns False and hands the driver no cookie; no error in
\* load_cookies or save_cookies leaves the call; and navigate_to_homepage
\* returns what it returns when no session is persisted and nothing goes
\* wrong in the store.
C12_SessionBestEffort ==
    hv.called =>
        /\ ~hv.file.exists =>
                (hv.load.outcome = "false" /\ ~hv.load.handed)
        /\ hv.load.outcome \in {"true", "false"}
        /\ hv.save = "none"
        /\ hv.ret = navigate_to_homepage(use_advanced,
                        [hv.d EXCEPT !.loaded = "false", !.saved = "none"])

\* An advanced visit succeeds although reading the session file failed and
\* the write of the new one stopped part-way.
C12_Witness ==
    /\ hv.called
    /\ use_advanced
    /\ hv.file.exists
    /\ hv.loadFault = "read"
    /\ hv.load.outcome = "false"
    /\ hv.saveFault.at = "dump"
    /\ hv.ret

\* The positions of a call in the visit.
CallsOf(name) == {i \in 1..Len(hv.calls) : hv.calls[i] = name}

\* C13: in an advanced visit load_cookies is called exactly once, before
\* page.goto; save_cookies is called at most once, only after
\* wait_for_page_load returned True, and not at all when the navigation
\* failed or the challenge was not resolved.
C13_SessionCallOrder ==
    (hv.called /\ use_advanced) =>
        /\ Cardinality(CallsOf("load_cookies")) = 1
        /\ \A i \in CallsOf("load_cookies"), g \in CallsOf("goto") : i < g
        /\ Cardinality(CallsOf("save_cookies")) <= 1
        /\ \A k \in CallsOf("save_cookies") :
                /\ \E w \in CallsOf("wait_for_page_load") : w < k
                /\ wait_for_page_load(hv.d.settleOk, hv.d.detected,
                                      hv.d.resolved)
        /\ (~hv.d.gotoOk \/ (hv.d.detected /\ ~hv.d.resolved)) =>
                CallsOf("save_cookies") = {}

\* An advanced visit that met a challenge, resolved it and saved the
\* cookies as its last call.
C13_Witness ==
    /\ hv.called
    /\ use_advanced
    /\ hv.d.detected
    /\ hv.d.resolved
    /\ hv.calls # <<>>
    /\ hv.calls[Len(hv.calls)] = "save_cookies"

\* C23: in an advanced visit the fingerprint script, the extra headers and
\* the viewport are all applied before page.goto is issued: when the visit
\* gets as far as the navigation, the three calls come before it and each
\* of the three is in effect.
C23_SpoofingBeforeNavigation ==
    (hv.called /\ use_advanced) =>
        \A g \in CallsOf("goto") :
            /\ \E i \in CallsOf("inject_fingerprint_spoofing") : i < g
            /\ \E i \in CallsOf("set_extra_http_headers") : i < g
            /\ \E i \in CallsOf("set_viewport_size") : i < g
            /\ hv.applied = {"fingerprint", "headers", "viewport"}

\* ------------------------------------------------------------------------
\* Properties of the interrupted resolver (SpecCancel)
\* ------------------------------------------------------------------------
\* C14: cancellation.  Once a KeyboardInterrupt has been delivered during a
\* delay, an action or a detector probe of the resolver loop, the loop is
\* over: no further iteration starts, no further detector poll is made,
\* and the resolver does not report success, which would let the stage and
\* the stages after it go on.
C14_Cancellation ==
    intr.delivered =>
        /\ check_interval = intr.iteration
        /\ Len(verdicts) = intr.polls
        /\ ~(rpc = "returned" /\ ret)

\* ------------------------------------------------------------------------
\* Properties of the pointer (SpecMotion)
\* ------------------------------------------------------------------------
\* C22: mouse_position changes only at the end of a movement all of whose
\* points were sent to the driver, and then to the end point of the path; a
\* movement that the driver cut short leaves it as it was; and every path
\* starts at the value mouse_position has at that time.
C22_PointerState ==
    /\ [][mouse_position' # mouse_position =>
            /\ mv.pc = "moving"
            /\ mv.sent = Len(mv.curve)
            /\ mouse_position' = mv.end]_vars
    /\ [](mv.pc = "failed" => mouse_position = mv.start)
    /\ [](mv.pc = "moving" =>
            (mv.start = mouse_position /\ mv.curve[1] = mouse_position))

\* A second movement, begun where the first had ended, was cut short after
\* some of its points: the pointer is still where the first one ended.
C22_Witness ==
    /\ mv.pc = "failed"
    /\ mv.moves = 2
    /\ mv.sent > 0
    /\ mv.start # <<0, 0>>
    /\ mv.end # mv.start
    /\ mouse_position = mv.start
====
